---- MODULE Spec2Model ----
(***************************************************************************)
(* Model of the email-triage pipeline: the Pub/Sub callback (main.py), the *)
(* dispatcher process_pubsub_message (processing_service.py), the Gemini   *)
(* wrappers (gemini_service.py), the Gmail gateway (gmail_service.py), the *)
(* Telegram notifier (telegram_service.py) and the eBay search client      *)
(* (ebay_service.py).                                                      *)
(***************************************************************************)
EXTENDS Integers, Sequences, FiniteSets, TLC

(***************************************************************************)
(* Bounds of the model.                                                    *)
(***************************************************************************)
MaxRetriesBound == 4
NumMsgs == 2
MaxNotifs == 2
MaxItems == 2
MaxSearches == 3
MaxTokenCalls == 3

(***************************************************************************)
(* Program constants.                                                      *)
(***************************************************************************)
DefaultMaxRetries == 3
DefaultDelay == 5
DefaultExpiresIn == 3600
Margin == 60
PreviewLength == 1000

VARIABLES
    api,        \* the activation of _call_gemini_api under study
    config,     \* config.py: which credentials are configured
    mail,       \* the mailbox: the content of each message that arrived
    unread,     \* ids of the messages labelled UNREAD, newest first
    cb,         \* per callback thread: the position and locals of its cycle
    delivered,  \* number of notifications Pub/Sub has delivered
    sent,       \* per message: the replies the mailbox provider has sent
    escalated,  \* per message: the summaries delivered to the Telegram chat
    oauth_token,        \* ebay_service.oauth_token: whether a token is cached
    token_expiry_time,  \* ebay_service.token_expiry_time
    now,                \* what time.time() returns
    ebay,       \* the call of the eBay client under study, and which token is cached
    wrap        \* the call of a Gemini wrapper under study

\* The state that only the function-level specifications move.
fnVars == <<token_expiry_time, now, ebay, wrap>>

vars == <<api, config, mail, unread, cb, delivered, sent, escalated, oauth_token,
          token_expiry_time, now, ebay, wrap>>

pipeVars == <<config, mail, unread, cb, delivered, sent, escalated, oauth_token,
              token_expiry_time, now, ebay, wrap>>

(***************************************************************************)
(* Values shared by the Gemini wrappers.                                   *)
(***************************************************************************)
\* Python's None as returned by _call_gemini_api.
NoResponse == [kind |-> "None", parts |-> FALSE, block |-> FALSE]

\* A response object of generate_content: parts present or not, and whether
\* prompt_feedback carries a block_reason.
Response(parts, block) == [kind |-> "response", parts |-> parts, block |-> block]

\* What one generate_content call can do: raise, or deliver a response.
AttemptOutcomes == {"raise", "parts", "blocked", "noparts"}

ResponseOf(outcome) ==
    CASE outcome = "parts"   -> Response(TRUE, FALSE)
      [] outcome = "blocked" -> Response(FALSE, TRUE)
      [] outcome = "noparts" -> Response(FALSE, FALSE)

RECURSIVE Pow2(_)
Pow2(n) == IF n <= 0 THEN 1 ELSE 2 * Pow2(n - 1)

(***************************************************************************)
(* Text: a Python str is a sequence of characters.                         *)
(***************************************************************************)
Whitespace == {" ", "\n"}

RECURSIVE LStrip(_)
LStrip(s) ==
    IF s = <<>> THEN <<>>
    ELSE IF Head(s) \in Whitespace THEN LStrip(Tail(s)) ELSE s

RECURSIVE RStrip(_)
RStrip(s) ==
    IF s = <<>> THEN <<>>
    ELSE IF s[Len(s)] \in Whitespace THEN RStrip(SubSeq(s, 1, Len(s) - 1)) ELSE s

\* str.strip()
Strip(s) == RStrip(LStrip(s))

UpperChar(c) ==
    CASE c = "s" -> "S" [] c = "p" -> "P" [] c = "a" -> "A" [] c = "m" -> "M"
      [] c = "r" -> "R" [] c = "o" -> "O" [] c = "c" -> "C" [] c = "e" -> "E"
      [] c = "k" -> "K" [] c = "h" -> "H" [] c = "n" -> "N" [] c = "g" -> "G"
      [] c = "ó" -> "Ó" [] c = "ô" -> "Ô"
      [] OTHER -> c

\* str.upper()
Upper(s) == IF s = <<>> THEN <<>> ELSE [i \in 1 .. Len(s) |-> UpperChar(s[i])]

\* str.startswith(prefix)
StartsWith(s, prefix) ==
    /\ Len(prefix) <= Len(s)
    /\ SubSeq(s, 1, Len(prefix)) = prefix

\* An optional value: Python's None, or a value.
None == [isNone |-> TRUE, v |-> <<>>]
Some(x) == [isNone |-> FALSE, v |-> x]

(***************************************************************************)
(* What _call_gemini_api hands to the wrappers: None (failed, blocked or   *)
(* no model), a response with parts, or a response without parts.          *)
(***************************************************************************)
ApiResults == {NoResponse, Response(TRUE, FALSE), Response(FALSE, FALSE)}

\* The test of every wrapper without its "and response.parts".
UsableWithoutParts(resp) == resp.kind = "response"

\* "if response and response.parts" of every wrapper.
Usable(resp) == resp.kind = "response" /\ resp.parts

(***************************************************************************)
(* classify_email                                                          *)
(***************************************************************************)
SPAM == <<"S", "P", "A", "M">>
PROCESS == <<"P", "R", "O", "C", "E", "S", "S">>

\* line 96 without the call of upper().
classify_email_case_sensitive(resp, text) ==
    IF Usable(resp)
       THEN LET classification == Strip(text) IN
            IF classification \in {SPAM, PROCESS}
               THEN Some(classification)
               ELSE Some(PROCESS)
       ELSE None

\* gemini_service.py lines 94-108
classify_email(resp, text) ==
    IF Usable(resp)
       THEN LET classification == Upper(Strip(text)) IN
            IF classification \in {SPAM, PROCESS}
               THEN Some(classification)
               ELSE Some(PROCESS)
       ELSE None

(***************************************************************************)
(* generate_ebay_search_params: the model's text is modelled by the value  *)
(* json.loads makes of it.                                                 *)
(***************************************************************************)
\* The keys the validation of line 384 knows, except 'q'.
KnownKeys == {"limit", "filter"}
ParamKeys == {"q", "zz"} \cup KnownKeys

\* A parsed JSON value: its type, whether Python holds it true, and which of
\* ParamKeys are members of it ("k in value").
Json(kind, truthy, keys) == [kind |-> kind, truthy |-> truthy, keys |-> keys]

InvalidJson == Json("invalid", FALSE, {})
JsonNull == Json("null", FALSE, {})

\* line 384: "q" not in params, which raises TypeError on a number.
SupportsIn(value) == value.kind \in {"dict", "list", "str"}

\* gemini_service.py lines 371-396
generate_ebay_search_params(resp, value) ==
    IF Usable(resp)
       THEN IF value.kind = "invalid" THEN None
            ELSE IF value.kind = "null" THEN None
            ELSE IF ~value.truthy THEN Some(value)
            ELSE IF ~SupportsIn(value) THEN None
            ELSE IF "q" \notin value.keys /\ value.keys \cap KnownKeys /= {}
                    THEN None
                    ELSE Some(value)
       ELSE None

(***************************************************************************)
(* evaluate_knowledge_relevance and generate_response                      *)
(***************************************************************************)
Affirmative == <<"C", "Ó">>

\* line 171 as if the list were never empty.
NoKnowledgeNever(items) == FALSE

\* line 171: "if not relevant_knowledge".
NoKnowledge(items) == items = 0

\* line 207 without the call of upper().
evaluate_knowledge_relevance_case_sensitive(items, resp, text) ==
    IF NoKnowledge(items) THEN [result |-> FALSE, called |-> FALSE]
    ELSE IF Usable(resp)
            THEN [result |-> StartsWith(Strip(text), Affirmative),
                  called |-> TRUE]
            ELSE [result |-> FALSE, called |-> TRUE]

\* gemini_service.py lines 171-219; called is whether the LLM call is made.
evaluate_knowledge_relevance(items, resp, text) ==
    IF NoKnowledge(items) THEN [result |-> FALSE, called |-> FALSE]
    ELSE IF Usable(resp)
            THEN [result |-> StartsWith(Upper(Strip(text)), Affirmative),
                  called |-> TRUE]
            ELSE [result |-> FALSE, called |-> TRUE]

Fallback == <<"f", "a", "l", "l", "b", "a", "c", "k">>

\* line 235 as if the list were never empty.
NoItemsNever(items) == FALSE

\* line 235: "if not relevant_knowledge".
NoItems(items) == items = 0

\* line 284 without the call of strip().
generate_response_untrimmed(items, resp, text) ==
    IF NoItems(items) THEN [result |-> Some(Fallback), called |-> FALSE]
    ELSE IF Usable(resp)
            THEN [result |-> Some(text), called |-> TRUE]
            ELSE [result |-> None, called |-> TRUE]

\* gemini_service.py lines 235-293
generate_response(items, resp, text) ==
    IF NoItems(items) THEN [result |-> Some(Fallback), called |-> FALSE]
    ELSE IF Usable(resp)
            THEN [result |-> Some(Strip(text)), called |-> TRUE]
            ELSE [result |-> None, called |-> TRUE]

\* A Python truth test of an optional str or of an optional JSON value.
\* "if response_text" (processing_service.py line 108) as if it only tested
\* for None.
TruthyTextAlsoEmpty(opt) == ~opt.isNone

TruthyText(opt) == ~opt.isNone /\ opt.v /= <<>>
TruthyJson(opt) == ~opt.isNone /\ opt.v.truthy

(***************************************************************************)
(* The collaborators of the dispatcher, as functions of their input and of *)
(* what the remote service does.                                           *)
(***************************************************************************)
Msgs == 1 .. NumMsgs
Procs == {"A", "B"}

\* config.py: are the Telegram token and chat id set; are the eBay OAuth
\* client id and secret set.
Configs ==
    {[telegram |-> TRUE, ebay |-> TRUE],
     [telegram |-> FALSE, ebay |-> TRUE],
     [telegram |-> TRUE, ebay |-> FALSE]}

\* What get_email_details extracts from a message: a body or "", a From
\* header or None, a Message-ID header or None; the message has a threadId.
Details(body, sender, message_id_header) ==
    [arrived |-> TRUE, body |-> body, sender |-> sender,
     message_id_header |-> message_id_header, thread_id |-> TRUE]

NotArrived ==
    [arrived |-> FALSE, body |-> FALSE, sender |-> FALSE,
     message_id_header |-> FALSE, thread_id |-> FALSE]

\* gmail_service.py line 138: message.get('threadId') is None.
WithoutThread(details) == [details EXCEPT !.thread_id = FALSE]

\* The messages of the mailbox: a complete one, one without body text, one
\* without a From header.
MailKinds ==
    {Details(TRUE, TRUE, TRUE), Details(FALSE, TRUE, TRUE),
     Details(TRUE, FALSE, TRUE)}

\* gmail_service.py lines 114-119 as if an error of the request were ignored.
list_unread_emails_despite_error(outcome, labelled) == labelled

\* gmail_service.py lines 97-119: the provider's list, or [] on any error.
list_unread_emails(outcome, labelled) ==
    IF outcome = "ok" THEN labelled ELSE <<>>

\* gmail_service.py lines 122-217: the details, None on HttpError; any other
\* exception reaches "except base64.BinasciiError", a name the base64 module
\* does not have, and the AttributeError of that lookup leaves the function.
get_email_details(outcome) ==
    CASE outcome = "ok"          -> [raised |-> FALSE, found |-> TRUE]
      [] outcome = "http_error"  -> [raised |-> FALSE, found |-> FALSE]
      [] outcome = "other_error" -> [raised |-> TRUE, found |-> FALSE]

\* gmail_service.py lines 220-271 without the test of lines 225-228.
send_reply_without_header(details, outcome) ==
    IF ~details.sender THEN [result |-> FALSE, send |-> FALSE]
    ELSE [result |-> outcome = "ok", send |-> TRUE]

\* gmail_service.py lines 220-271: send is whether the send request is made.
\* A thread_id of None is only logged (lines 229-231).
send_reply(details, outcome) ==
    IF ~details.sender THEN [result |-> FALSE, send |-> FALSE]
    ELSE IF ~details.message_id_header THEN [result |-> FALSE, send |-> FALSE]
    ELSE [result |-> outcome = "ok", send |-> TRUE]

\* gmail_service.py lines 274-290
mark_as_read(outcome) == outcome = "ok"

\* telegram_service.py line 15 as if the bot were always configured.
TelegramConfiguredAlways(cfg) == TRUE

\* telegram_service.py line 15: the bot token and the chat id are set.
TelegramConfigured(cfg) == cfg.telegram

\* telegram_service.py lines 8-84 as if every call reported a delivery.
run_async_forward_reporting_success(details, cfg, outcome) ==
    IF ~cfg.telegram THEN [result |-> TRUE, send |-> FALSE]
    ELSE IF ~details.sender THEN [result |-> TRUE, send |-> FALSE]
    ELSE [result |-> TRUE, send |-> TRUE]

\* telegram_service.py lines 8-84: without configuration nothing is sent; a
\* sender of None makes "'<' in sender" raise TypeError inside
\* forward_to_support, which run_async_forward turns into False.
run_async_forward(details, cfg, outcome) ==
    IF ~TelegramConfigured(cfg) THEN [result |-> FALSE, send |-> FALSE]
    ELSE IF ~details.sender THEN [result |-> FALSE, send |-> FALSE]
    ELSE [result |-> outcome = "ok", send |-> TRUE]

\* gmail_service.py line 138: the thread id that get_email_details reports for
\* a message, a value of its own and not the message id.
thread_id(message_id) == message_id + NumMsgs

\* gmail_service.py line 153: the Message-ID header of a message, again a
\* value of its own.
message_id_header(message_id) == message_id + NumMsgs + NumMsgs

NoReply == [threadId |-> 0, in_reply_to |-> 0, references |-> 0, body |-> <<>>]

\* gmail_service.py lines 235-256 with no threadId in the request.
create_message_unthreaded(details, message_id, reply_body) ==
    [threadId |-> 0, in_reply_to |-> message_id_header(message_id),
     references |-> message_id_header(message_id), body |-> reply_body]

\* gmail_service.py lines 235-256: the reply carries the text, names the
\* original's Message-ID in In-Reply-To and References, and is sent into
\* the original's thread; 0 stands for the None of an absent value.
create_message(details, message_id, reply_body) ==
    [threadId |-> IF details.thread_id THEN thread_id(message_id) ELSE 0,
     in_reply_to |-> IF details.message_id_header
                        THEN message_id_header(message_id) ELSE 0,
     references |-> IF details.message_id_header
                       THEN message_id_header(message_id) ELSE 0,
     body |-> reply_body]

Min(a, b) == IF a < b THEN a ELSE b

NoMessageText ==
    [sender |-> 0, subject |-> 0, message_id |-> 0, body_len |-> 0,
     body_preview |-> 0, gmail_link |-> 0]

\* telegram_service.py lines 20-41: the text sent to the support chat names
\* the sender, the subject and the id of the message, the first 1000
\* characters of its body and a link built from its thread id. sender and
\* subject are given as the message whose headers they are; body_len is
\* the length of the body, kept beside the text.
message_text(message_id, body_len) ==
    [sender |-> message_id, subject |-> message_id, message_id |-> message_id,
     body_len |-> body_len, body_preview |-> Min(body_len, PreviewLength),
     gmail_link |-> thread_id(message_id)]

\* ebay_service.py line 34: "time.time() < token_expiry_time".
Fresh(t, expiry) == t < expiry

\* ebay_service.py line 70 without the margin.
ExpiryTimeWithoutMargin(t, expires_in) == t + expires_in

\* ebay_service.py line 70: "time.time() + expires_in - 60".
ExpiryTime(t, expires_in) == t + expires_in - Margin

\* ebay_service.py lines 26-86: cached is the value of oauth_token after the
\* call; exchange is what the token endpoint does when it is asked.
get_oauth_token(cached, fresh, cfg, exchange) ==
    IF cached /\ fresh
       THEN [token |-> TRUE, cached |-> cached, request |-> FALSE]
    ELSE IF ~cfg.ebay
       THEN [token |-> FALSE, cached |-> cached, request |-> FALSE]
    ELSE CASE exchange = "ok" ->
                [token |-> TRUE, cached |-> TRUE, request |-> TRUE]
           [] exchange = "no_access_token" ->
                [token |-> FALSE, cached |-> FALSE, request |-> TRUE]
           [] exchange = "error" ->
                [token |-> FALSE, cached |-> cached, request |-> TRUE]

\* ebay_service.py line 128: params['limit'] = 50 works on a dict only.
SupportsItemAssignment(params) == params.kind = "dict"

\* ebay_service.py line 104 as if the token were never missing.
TokenMissingNever(token) == FALSE

\* ebay_service.py line 104: "if not token".
TokenMissing(token) == ~token

\* ebay_service.py lines 88-171: search is whether the search request
\* succeeds, found the number of item summaries in its answer; token is what
\* get_oauth_token returned.  The tests "'q' not in params" (line 122) and
\* "params['limit'] = 50" (line 128) stand before the try statement.
search_ebay_items(params, cached, fresh, cfg, exchange, search, found) ==
    LET tok == get_oauth_token(cached, fresh, cfg, exchange)
        tokenNet == IF tok.request THEN <<"oauth_token_request">> ELSE <<>>
        r == [raised |-> FALSE, items |-> 0, net |-> tokenNet,
              cached |-> tok.cached, token |-> tok.token]
    IN  IF TokenMissing(tok.token) THEN r
        ELSE IF ~SupportsIn(params) THEN [r EXCEPT !.raised = TRUE]
        ELSE IF "q" \notin params.keys THEN r
        ELSE IF "limit" \notin params.keys /\ ~SupportsItemAssignment(params)
           THEN [r EXCEPT !.raised = TRUE]
        ELSE [r EXCEPT !.items = IF search = "ok" THEN found ELSE 0,
                       !.net = tokenNet \o <<"ebay_search_request">>]

(***************************************************************************)
(* The state of one callback invocation and of the mailbox.                *)
(***************************************************************************)
NoParams == [isNone |-> TRUE, v |-> JsonNull]

\* The locals of process_message_callback and process_pubsub_message before
\* a notification is delivered.  calls lists the collaborator functions the
\* dispatcher called, net the requests that went out, outcomes the
\* DispatchOutcome tags reached, fault the exception raised in the cycle
\* and faultIn the call that raised it, token_failed whether get_oauth_token
\* gave search_ebay_items no token, escalation the text sent to the support
\* chat, reply the message handed to the send request, list_failed whether
\* the list request met an error.
NewCycle ==
    [pc |-> "idle", payload |-> "none", message_id |-> 0, fetched |-> FALSE,
     classification |-> None, search_params |-> NoParams, items |-> 0,
     sufficient |-> FALSE, response_text |-> None, success |-> FALSE,
     forwarded |-> FALSE, marked |-> FALSE, calls |-> <<>>, net |-> <<>>,
     outcomes |-> {}, fault |-> "", faultIn |-> "", ack |-> "none",
     token_failed |-> FALSE, escalation |-> NoMessageText,
     reply |-> NoReply, list_failed |-> FALSE]

\* No call of a Gemini wrapper is under study: fn is the wrapper, items the
\* number of items handed to it, text and value what the model answered, out,
\* params and flag what the wrapper returned.
NoWrap ==
    [pc |-> "idle", fn |-> "none", items |-> 0, text |-> <<>>,
     value |-> JsonNull, out |-> None, params |-> NoParams, flag |-> FALSE]

\* No call of the eBay client is under study, and no token was acquired:
\* at is the time of the cache test of the last call, hit whether it returned
\* the cached token, request whether it asked the token endpoint, token
\* whether it got a token; acquired and expires_in describe the token that
\* oauth_token holds; calls counts the calls made.
NoEbay ==
    [fn |-> "none", params |-> JsonNull, at |-> 0, hit |-> FALSE,
     request |-> FALSE, token |-> FALSE, raised |-> FALSE, items |-> 0,
     net |-> <<>>, acquired |-> 0, expires_in |-> 0, calls |-> 0]

FnIdle ==
    /\ token_expiry_time = 0
    /\ now = 0
    /\ ebay = NoEbay
    /\ wrap = NoWrap

PipeIdle ==
    /\ config = [telegram |-> TRUE, ebay |-> TRUE]
    /\ mail = [m \in Msgs |-> NotArrived]
    /\ unread = <<>>
    /\ cb = [p \in Procs |-> NewCycle]
    /\ delivered = 0
    /\ sent = [m \in Msgs |-> 0]
    /\ escalated = [m \in Msgs |-> 0]
    /\ oauth_token = FALSE
    /\ FnIdle

(***************************************************************************)
(* _call_gemini_api(model, prompt, max_retries, delay)                     *)
(***************************************************************************)
ApiModels == {"None", "model"}
ApiMaxRetries == 0 .. MaxRetriesBound
ApiDelays == {DefaultDelay, 1}

ApiStart(model, max_retries, delay) ==
    [pc |-> "enter", model |-> model, max_retries |-> max_retries,
     base |-> delay, delay |-> delay, retries |-> 0,
     hist |-> <<>>, sleeps |-> <<>>, result |-> NoResponse]

InitApi ==
    /\ \E model \in ApiModels, max_retries \in ApiMaxRetries, delay \in ApiDelays :
          api = ApiStart(model, max_retries, delay)
    /\ PipeIdle

\* line 31: the guard on an uninitialised model.
ModelMissingNever(model) == FALSE

ModelMissing(model) == model = "None"

\* lines 31-34: return None for a missing model, else enter the loop.
ApiEnter ==
    /\ api.pc = "enter"
    /\ IF ModelMissing(api.model)
          THEN api' = [api EXCEPT !.pc = "done", !.result = NoResponse]
          ELSE api' = [api EXCEPT !.pc = "loop", !.retries = 0]
    /\ UNCHANGED pipeVars

\* line 42-51 with the "return None" of line 50 in force.
ReturnedForNoneWithoutParts(resp) ==
    IF ~resp.parts THEN NoResponse ELSE resp

\* line 42-51: what the call returns for a delivered response.
ReturnedFor(resp) ==
    IF ~resp.parts /\ resp.block THEN NoResponse ELSE resp

\* line 55: the test that ends the retries.
RetriesExhausted(retries, max_retries) == retries >= max_retries

\* line 35: the while condition.
LoopConditionInclusive(retries, max_retries) == retries <= max_retries

LoopCondition(retries, max_retries) == retries < max_retries

\* line 52: the outcomes of generate_content that land in the except clause.
RetriedAlsoBlocked(outcome) == outcome \in {"raise", "blocked"}

Retried(outcome) == outcome = "raise"

\* lines 35-57: one pass of the while loop up to the return or the sleep.
ApiAttempt ==
    /\ api.pc = "loop"
    /\ LoopCondition(api.retries, api.max_retries)
    /\ \E outcome \in AttemptOutcomes :
          IF Retried(outcome)
             THEN LET r == api.retries + 1 IN
                  IF RetriesExhausted(r, api.max_retries)
                     THEN api' = [api EXCEPT !.hist = Append(@, outcome),
                                             !.retries = r,
                                             !.pc = "done",
                                             !.result = NoResponse]
                     ELSE api' = [api EXCEPT !.hist = Append(@, outcome),
                                             !.retries = r,
                                             !.pc = "sleep"]
             ELSE api' = [api EXCEPT !.hist = Append(@, outcome),
                                     !.pc = "done",
                                     !.result = ReturnedFor(ResponseOf(outcome))]
    /\ UNCHANGED pipeVars

\* line 60: the backoff.
NextDelayLinear(delay) == delay + DefaultDelay

NextDelay(delay) == delay * 2

\* lines 58-60: sleep, then double the delay.
ApiSleep ==
    /\ api.pc = "sleep"
    /\ api' = [api EXCEPT !.sleeps = Append(@, api.delay),
                          !.delay = NextDelay(api.delay),
                          !.pc = "loop"]
    /\ UNCHANGED pipeVars

\* line 61: the loop condition fails without a return in the body.
ApiFallThrough ==
    /\ api.pc = "loop"
    /\ ~LoopCondition(api.retries, api.max_retries)
    /\ api' = [api EXCEPT !.pc = "done", !.result = NoResponse]
    /\ UNCHANGED pipeVars

NextApi == ApiEnter \/ ApiAttempt \/ ApiSleep \/ ApiFallThrough

SpecApi == InitApi /\ [][NextApi]_vars

\* The call is sequential code: each enabled step is eventually taken.
SpecApiFair == SpecApi /\ WF_vars(NextApi)

(***************************************************************************)
(* The mailbox and the notification channel.                               *)
(***************************************************************************)
Init ==
    /\ api = ApiStart("model", DefaultMaxRetries, DefaultDelay)
    /\ config \in Configs
    /\ mail = [m \in Msgs |-> NotArrived]
    /\ unread = <<>>
    /\ cb = [p \in Procs |-> NewCycle]
    /\ delivered = 0
    /\ sent = [m \in Msgs |-> 0]
    /\ escalated = [m \in Msgs |-> 0]
    /\ oauth_token = FALSE
    /\ FnIdle

\* gmail_service.py lines 279-283 as if the modify request changed no label.
RemoveNothing(seq, m) == seq

\* gmail_service.py lines 279-283: the message loses its UNREAD label.
Remove(seq, m) == SelectSeq(seq, LAMBDA x : x /= m)

Range(seq) == {seq[i] : i \in DOMAIN seq}

Count(seq, x) == Len(SelectSeq(seq, LAMBDA y : y = x))

\* A new message reaches the mailbox; the provider lists newest first.
Arrive ==
    /\ \E m \in Msgs, kind \in MailKinds :
          /\ ~mail[m].arrived
          /\ \A k \in Msgs : k < m => mail[k].arrived
          /\ mail' = [mail EXCEPT ![m] = kind]
          /\ unread' = <<m>> \o unread
    /\ UNCHANGED <<fnVars, api, config, cb, delivered, sent, escalated, oauth_token>>

\* The payloads Pub/Sub can hand over: bytes that are not UTF-8, text that
\* is not JSON, JSON that is not an object, a Gmail notification.
Payloads == {"not_utf8", "not_json", "not_object", "notification"}

\* main.py lines 58-61: Pub/Sub invokes the callback with a notification.
Deliver(p) ==
    /\ cb[p].pc = "idle"
    /\ delivered < MaxNotifs
    /\ \E payload \in Payloads :
          cb' = [cb EXCEPT ![p] = [NewCycle EXCEPT !.pc = "decode",
                                                   !.payload = payload]]
    /\ delivered' = delivered + 1
    /\ UNCHANGED <<fnVars, api, config, mail, unread, sent, escalated, oauth_token>>

(***************************************************************************)
(* process_pubsub_message, one step per call of a collaborator.            *)
(***************************************************************************)
\* processing_service.py lines 147-150: the except clauses of the dispatcher.
\* "except json.JSONDecodeError" and then "except Exception".
Exceptions ==
    {"JSONDecodeError", "AttributeError", "TypeError", "UnicodeDecodeError"}

PpsCatchesJsonOnly(exc) == exc = "JSONDecodeError"

PpsCatches(exc) == exc = "JSONDecodeError" \/ exc \in Exceptions

\* An exception raised inside process_pubsub_message by the call named
\* where: caught and logged by the dispatcher's own handlers, else it reaches
\* the callback's handler (main.py line 75).
Raise(c, exc, where) ==
    LET failed == IF c.fetched THEN {"FAILED"} ELSE {}
        d == [c EXCEPT !.fault = exc, !.faultIn = where,
                       !.outcomes = @ \cup failed]
    IN  IF PpsCatches(exc) THEN [d EXCEPT !.pc = "return"]
                           ELSE [d EXCEPT !.pc = "nack"]

Called(c, f) == [c EXCEPT !.calls = Append(@, f)]

\* main.py line 64: the payloads on which data.decode("utf-8") raises.
DecodeFails(payload) == payload = "not_utf8"

\* main.py lines 62-64 and 75: message.data.decode("utf-8") in the callback.
Decode(p) ==
    /\ cb[p].pc = "decode"
    /\ cb' = [cb EXCEPT ![p] =
                IF DecodeFails(cb[p].payload)
                   THEN [@ EXCEPT !.fault = "UnicodeDecodeError",
                                  !.faultIn = "decode", !.pc = "nack"]
                   ELSE [@ EXCEPT !.pc = "parse"]]
    /\ UNCHANGED <<fnVars, api, config, mail, unread, delivered, sent, escalated,
                   oauth_token>>

\* processing_service.py lines 17-23: json.loads and the two .get calls.
ParsePayload(p) ==
    /\ cb[p].pc = "parse"
    /\ cb' = [cb EXCEPT ![p] =
                CASE cb[p].payload = "not_json" ->
                       Raise(@, "JSONDecodeError", "json.loads")
                  [] cb[p].payload = "not_object" ->
                       Raise(@, "AttributeError", "message_content.get")
                  [] OTHER                        -> [@ EXCEPT !.pc = "list"]]
    /\ UNCHANGED <<fnVars, api, config, mail, unread, delivered, sent, escalated,
                   oauth_token>>

\* gmail_service.py lines 107-110 as if listing took the UNREAD label off the
\* newest message.
unread_after_list_claiming(labelled) ==
    IF labelled = <<>> THEN <<>> ELSE Tail(labelled)

\* gmail_service.py lines 107-110: messages().list only reads; the messages
\* keep their labels.
unread_after_list(labelled) == labelled

\* processing_service.py line 33 as if the last entry were taken.
message_summary_oldest(unread_messages) ==
    unread_messages[Len(unread_messages)]

\* processing_service.py line 33: unread_messages[0].
message_summary(unread_messages) == unread_messages[1]

\* processing_service.py lines 25-37
ListUnread(p) ==
    /\ cb[p].pc = "list"
    /\ \E outcome \in {"ok", "error"} :
          LET unread_messages == list_unread_emails(outcome, unread)
              c == [Called(cb[p], "list_unread_emails")
                      EXCEPT !.list_failed = outcome /= "ok"]
          IN  cb' = [cb EXCEPT ![p] =
                       IF unread_messages = <<>>
                          THEN [c EXCEPT !.pc = "return"]
                          ELSE [c EXCEPT !.pc = "get",
                                         !.message_id =
                                            message_summary(unread_messages)]]
    /\ unread' = unread_after_list(unread)
    /\ UNCHANGED <<fnVars, api, config, mail, delivered, sent, escalated,
                   oauth_token>>

\* processing_service.py line 53 as if no body were ever empty.
EmptyBodyNever(body) == FALSE

\* processing_service.py line 53: "if not body".
EmptyBody(body) == ~body

\* processing_service.py lines 42-57
GetDetails(p) ==
    /\ cb[p].pc = "get"
    /\ \E outcome \in {"ok", "http_error", "other_error"} :
          LET r == get_email_details(outcome)
              c == Called(cb[p], "get_email_details")
              body == mail[c.message_id].body
          IN  cb' = [cb EXCEPT ![p] =
                       IF r.raised
                          THEN Raise(c, "AttributeError", "get_email_details")
                       ELSE IF ~r.found THEN [c EXCEPT !.pc = "return"]
                       ELSE IF EmptyBody(body)
                          THEN [c EXCEPT !.fetched = TRUE, !.pc = "mark",
                                         !.outcomes = @ \cup {"SKIPPED_EMPTY"}]
                          ELSE [c EXCEPT !.fetched = TRUE, !.pc = "classify"]]
    /\ UNCHANGED <<fnVars, api, config, mail, unread, delivered, sent, escalated,
                   oauth_token>>

ClassifyTexts ==
    {SPAM, PROCESS, <<"s", "p", "a", "m", "\n">>,
     <<" ", "P", "r", "o", "c", "e", "s", "s">>,
     <<"S", "P", "A", "M", ".">>, <<>>}

\* processing_service.py line 62 as if nothing were ever SPAM.
ClassifiedSpamNever(classification) == FALSE

\* processing_service.py line 62: classification == "SPAM".
ClassifiedSpam(classification) ==
    ~classification.isNone /\ classification.v = SPAM

\* processing_service.py line 66 as if a failed classification were PROCESS.
ClassifiedProcessOrNone(classification) ==
    classification.isNone \/ classification.v = PROCESS

\* processing_service.py line 66: classification == "PROCESS".
ClassifiedProcess(classification) ==
    ~classification.isNone /\ classification.v = PROCESS

\* processing_service.py lines 60-66 and 136-137
Classify(p) ==
    /\ cb[p].pc = "classify"
    /\ \E resp \in ApiResults, text \in ClassifyTexts :
          LET classification == classify_email(resp, text)
              c == [Called(cb[p], "classify_email")
                      EXCEPT !.classification = classification]
          IN  cb' = [cb EXCEPT ![p] =
                       IF ClassifiedSpam(classification)
                          THEN [c EXCEPT !.pc = "mark",
                                         !.outcomes = @ \cup {"MARKED_SPAM"}]
                       ELSE IF ClassifiedProcess(classification)
                          THEN [c EXCEPT !.pc = "synthesize"]
                          ELSE [c EXCEPT !.pc = "forward"]]
    /\ UNCHANGED <<fnVars, api, config, mail, unread, delivered, sent, escalated,
                   oauth_token>>

\* The values json.loads can make of the model's text.
SynthValues ==
    {InvalidJson, JsonNull,
     Json("dict", FALSE, {}), Json("dict", TRUE, {"q"}),
     Json("dict", TRUE, {"q", "limit"}), Json("dict", TRUE, {"filter"}),
     Json("dict", TRUE, {"zz"}),
     Json("list", TRUE, {"q"}), Json("str", TRUE, {"q"}),
     Json("str", TRUE, {"q", "limit"}),
     Json("num", TRUE, {}), Json("num", FALSE, {})}

\* processing_service.py line 70 without the test for 'q'.
UnusableOnlyIfFalsy(search_params) == ~TruthyJson(search_params)

\* processing_service.py line 70
Unusable(search_params) ==
    ~TruthyJson(search_params) \/ "q" \notin search_params.v.keys

\* processing_service.py lines 67-78
Synthesize(p) ==
    /\ cb[p].pc = "synthesize"
    /\ \E resp \in ApiResults, value \in SynthValues :
          LET search_params == generate_ebay_search_params(resp, value)
              c == [Called(cb[p], "generate_ebay_search_params")
                      EXCEPT !.search_params = search_params]
          IN  cb' = [cb EXCEPT ![p] =
                       IF Unusable(search_params)
                          THEN [c EXCEPT !.pc = "forward"]
                          ELSE [c EXCEPT !.pc = "search"]]
    /\ UNCHANGED <<fnVars, api, config, mail, unread, delivered, sent, escalated,
                   oauth_token>>

\* processing_service.py line 84: "if relevant_items".
HasItems(relevant_items) == relevant_items > 0

\* processing_service.py line 129: search_params.get('q', 'N/A') in the
\* message of the branch without items; only a mapping has get.
SupportsGet(search_params) == search_params.kind = "dict"

\* processing_service.py lines 80-84 and 126-130
Search(p) ==
    /\ cb[p].pc = "search"
    /\ \E fresh \in BOOLEAN, exchange \in {"ok", "no_access_token", "error"},
          search \in {"ok", "error"}, found \in 0 .. MaxItems :
          LET r == search_ebay_items(cb[p].search_params.v, oauth_token, fresh,
                                     config, exchange, search, found)
              c == [Called(cb[p], "search_ebay_items")
                      EXCEPT !.net = @ \o r.net, !.items = r.items,
                             !.token_failed = ~r.token]
          IN  /\ oauth_token' = r.cached
              /\ cb' = [cb EXCEPT ![p] =
                          IF r.raised
                             THEN Raise(c, "TypeError", "search_ebay_items")
                          ELSE IF HasItems(r.items)
                             THEN [c EXCEPT !.pc = "evaluate"]
                          ELSE IF ~SupportsGet(cb[p].search_params.v)
                             THEN Raise(c, "AttributeError", "search_params.get")
                             ELSE [c EXCEPT !.pc = "forward"]]
    /\ UNCHANGED <<fnVars, api, config, mail, unread, delivered, sent, escalated>>

EvaluateTexts ==
    {<<"C", "Ó">>, <<" ", "c", "ó", ",">>, <<"K", "H", "Ô", "N", "G">>, <<>>}

\* processing_service.py line 100 as if every evaluation were sufficient.
SufficientAlways(is_items_relevant_and_sufficient) == TRUE

\* processing_service.py line 100: "if is_items_relevant_and_sufficient".
Sufficient(is_items_relevant_and_sufficient) ==
    is_items_relevant_and_sufficient

\* processing_service.py lines 94-100 and 119-125
Evaluate(p) ==
    /\ cb[p].pc = "evaluate"
    /\ \E resp \in ApiResults, text \in EvaluateTexts :
          LET r == evaluate_knowledge_relevance(cb[p].items, resp, text)
              c == [Called(cb[p], "evaluate_knowledge_relevance")
                      EXCEPT !.sufficient = r.result]
          IN  cb' = [cb EXCEPT ![p] =
                       IF Sufficient(r.result)
                          THEN [c EXCEPT !.pc = "generate"]
                          ELSE [c EXCEPT !.pc = "forward"]]
    /\ UNCHANGED <<fnVars, api, config, mail, unread, delivered, sent, escalated,
                   oauth_token>>

ReplyTexts == {<<"r", "e", "p", "l", "y">>, <<" ", "\n">>}

\* processing_service.py lines 101-108 and 145
Generate(p) ==
    /\ cb[p].pc = "generate"
    /\ \E resp \in ApiResults, text \in ReplyTexts :
          LET r == generate_response(cb[p].items, resp, text)
              c == [Called(cb[p], "generate_response")
                      EXCEPT !.response_text = r.result]
          IN  cb' = [cb EXCEPT ![p] =
                       IF TruthyText(r.result)
                          THEN [c EXCEPT !.pc = "send"]
                          ELSE [c EXCEPT !.pc = "return",
                                         !.outcomes = @ \cup {"FAILED"}]]
    /\ UNCHANGED <<fnVars, api, config, mail, unread, delivered, sent, escalated,
                   oauth_token>>

\* processing_service.py line 115 as if every send had succeeded.
SucceededAlways(success) == TRUE

\* processing_service.py line 115: "if success".
Succeeded(success) == success

\* processing_service.py lines 109-118 and 145
SendReply(p) ==
    /\ cb[p].pc = "send"
    /\ \E outcome \in {"ok", "error"} :
          LET r == send_reply(mail[cb[p].message_id], outcome)
              c == [Called(cb[p], "send_reply")
                      EXCEPT !.success = r.result,
                             !.reply =
                                IF r.send
                                   THEN create_message(mail[cb[p].message_id],
                                                       cb[p].message_id,
                                                       cb[p].response_text.v)
                                   ELSE @,
                             !.net = IF r.send THEN Append(@, "gmail_send")
                                                ELSE @]
          IN  /\ cb' = [cb EXCEPT ![p] =
                          IF Succeeded(r.result)
                             THEN [c EXCEPT !.pc = "mark",
                                            !.outcomes = @ \cup {"REPLIED"}]
                             ELSE [c EXCEPT !.pc = "return",
                                            !.outcomes = @ \cup {"FAILED"}]]
              /\ sent' = IF r.result
                            THEN [sent EXCEPT ![cb[p].message_id] = @ + 1]
                            ELSE sent
    /\ UNCHANGED <<fnVars, api, config, mail, unread, delivered, escalated, oauth_token>>

\* processing_service.py lines 74, 122, 131, 140: "if forwarded:".
MarkAfterForwardAlways(forwarded) == TRUE

MarkAfterForward(forwarded) == forwarded

\* The lengths of the bodies that reach an escalation: below and above the
\* length of the preview.
BodyLens == {1, PreviewLength + 1}

\* processing_service.py lines 73-78, 121-125, 130-134, 139-143
Forward(p) ==
    /\ cb[p].pc = "forward"
    /\ \E outcome \in {"ok", "error"}, body_len \in BodyLens :
          LET r == run_async_forward(mail[cb[p].message_id], config, outcome)
              c == [Called(cb[p], "run_async_forward")
                      EXCEPT !.forwarded = r.result,
                             !.escalation =
                                IF r.send
                                   THEN message_text(cb[p].message_id, body_len)
                                   ELSE @,
                             !.outcomes = @ \cup {"ESCALATED"},
                             !.net = IF r.send
                                        THEN Append(@, "telegram_send_message")
                                        ELSE @]
          IN  /\ cb' = [cb EXCEPT ![p] =
                          IF MarkAfterForward(r.result)
                             THEN [c EXCEPT !.pc = "mark"]
                             ELSE [c EXCEPT !.pc = "return"]]
              /\ escalated' = IF r.result
                                 THEN [escalated EXCEPT ![cb[p].message_id] = @ + 1]
                                 ELSE escalated
    /\ UNCHANGED <<fnVars, api, config, mail, unread, delivered, sent, oauth_token>>

\* processing_service.py lines 55, 64, 75, 116, 123, 132, 141: the result of
\* mark_as_read is not looked at.
MarkRead(p) ==
    /\ cb[p].pc = "mark"
    /\ \E outcome \in {"ok", "error"} :
          LET marked == mark_as_read(outcome)
              c == [Called(cb[p], "mark_as_read")
                      EXCEPT !.marked = marked,
                             !.net = Append(@, "gmail_modify"),
                             !.pc = "return"]
          IN  /\ cb' = [cb EXCEPT ![p] = c]
              /\ unread' = IF marked THEN Remove(unread, cb[p].message_id)
                                     ELSE unread
    /\ UNCHANGED <<fnVars, api, config, mail, delivered, sent, escalated, oauth_token>>

\* The callback is over: the locals of the cycle are gone, what stays is the
\* payload, the exception the cycle met and what Pub/Sub was told.
Finished(c, ack) ==
    [NewCycle EXCEPT !.payload = c.payload, !.fault = c.fault,
                     !.faultIn = c.faultIn, !.ack = ack]

\* main.py lines 68-73: process_pubsub_message returned, the callback acks.
Ack(p) ==
    /\ cb[p].pc = "return"
    /\ cb' = [cb EXCEPT ![p] = Finished(@, "acked")]
    /\ UNCHANGED <<fnVars, api, config, mail, unread, delivered, sent, escalated,
                   oauth_token>>

\* main.py lines 75-79: an exception reached the callback, which nacks.
Nack(p) ==
    /\ cb[p].pc = "nack"
    /\ cb' = [cb EXCEPT ![p] = Finished(@, "nacked")]
    /\ UNCHANGED <<fnVars, api, config, mail, unread, delivered, sent, escalated,
                   oauth_token>>

\* One callback thread: notifications are handled one after the other.
SeqProcs == {"A"}

Next ==
    \/ Arrive
    \/ \E p \in SeqProcs :
          \/ Deliver(p)
          \/ Decode(p)
          \/ ParsePayload(p)
          \/ ListUnread(p)
          \/ GetDetails(p)
          \/ Classify(p)
          \/ Synthesize(p)
          \/ Search(p)
          \/ Evaluate(p)
          \/ Generate(p)
          \/ SendReply(p)
          \/ Forward(p)
          \/ MarkRead(p)
          \/ Ack(p)
          \/ Nack(p)

Spec == Init /\ [][Next]_vars

(***************************************************************************)
(* A burst: k messages are unread, newest first, and no further message    *)
(* arrives while the notifications are handled one after the other.        *)
(***************************************************************************)
\* The list of the messages 1 .. k, newest first.
Newest(k) == [i \in 1 .. k |-> k + 1 - i]

InitBurst ==
    /\ api = ApiStart("model", DefaultMaxRetries, DefaultDelay)
    /\ config \in Configs
    /\ \E k \in 1 .. NumMsgs :
          /\ mail \in [Msgs -> MailKinds \cup {NotArrived}]
          /\ \A m \in Msgs : mail[m].arrived <=> m <= k
          /\ unread = Newest(k)
    /\ cb = [p \in Procs |-> NewCycle]
    /\ delivered = 0
    /\ sent = [m \in Msgs |-> 0]
    /\ escalated = [m \in Msgs |-> 0]
    /\ oauth_token = FALSE
    /\ FnIdle

NextBurst ==
    \E p \in SeqProcs :
       \/ Deliver(p)
       \/ Decode(p)
       \/ ParsePayload(p)
       \/ ListUnread(p)
       \/ GetDetails(p)
       \/ Classify(p)
       \/ Synthesize(p)
       \/ Search(p)
       \/ Evaluate(p)
       \/ Generate(p)
       \/ SendReply(p)
       \/ Forward(p)
       \/ MarkRead(p)
       \/ Ack(p)
       \/ Nack(p)

SpecBurst == InitBurst /\ [][NextBurst]_vars

(***************************************************************************)
(* One unread message whose From header, Message-ID header and threadId    *)
(* are each present or absent, handled by one callback thread.             *)
(***************************************************************************)
ReplyKinds ==
    LET headers == {Details(TRUE, from, id) : from \in BOOLEAN, id \in BOOLEAN}
    IN  headers \cup {WithoutThread(d) : d \in headers}

InitReply ==
    /\ api = ApiStart("model", DefaultMaxRetries, DefaultDelay)
    /\ config \in Configs
    /\ \E kind \in ReplyKinds :
          mail = [m \in Msgs |-> IF m = 1 THEN kind ELSE NotArrived]
    /\ unread = <<1>>
    /\ cb = [p \in Procs |-> NewCycle]
    /\ delivered = 0
    /\ sent = [m \in Msgs |-> 0]
    /\ escalated = [m \in Msgs |-> 0]
    /\ oauth_token = FALSE
    /\ FnIdle

SpecReply == InitReply /\ [][NextBurst]_vars

(***************************************************************************)
(* Two callbacks at once: the subscriber runs callbacks on a pool of       *)
(* threads (main.py lines 58-85), so a second notification is handled      *)
(* while the first cycle is under way. One message is unread, the          *)
(* notifications of the run have been delivered and the callback has been  *)
(* invoked for two of them.                                                *)
(***************************************************************************)
InitConcurrent ==
    /\ api = ApiStart("model", DefaultMaxRetries, DefaultDelay)
    /\ config \in Configs
    /\ mail = [m \in Msgs |-> IF m = 1 THEN Details(TRUE, TRUE, TRUE)
                                        ELSE NotArrived]
    /\ unread = <<1>>
    /\ cb \in [Procs -> {[NewCycle EXCEPT !.pc = "decode", !.payload = payload] :
                            payload \in Payloads}]
    /\ delivered = MaxNotifs
    /\ sent = [m \in Msgs |-> 0]
    /\ escalated = [m \in Msgs |-> 0]
    /\ oauth_token = FALSE
    /\ FnIdle

NextConcurrent ==
    \E p \in Procs :
       \/ Decode(p)
       \/ ParsePayload(p)
       \/ ListUnread(p)
       \/ GetDetails(p)
       \/ Classify(p)
       \/ Synthesize(p)
       \/ Search(p)
       \/ Evaluate(p)
       \/ Generate(p)
       \/ SendReply(p)
       \/ Forward(p)
       \/ MarkRead(p)
       \/ Ack(p)
       \/ Nack(p)

SpecConcurrent == InitConcurrent /\ [][NextConcurrent]_vars

(***************************************************************************)
(* One call of a Gemini wrapper, from its entry through _call_gemini_api   *)
(* to its return value.                                                    *)
(***************************************************************************)
\* _call_gemini_api is not running.
ApiIdle == [ApiStart("model", DefaultMaxRetries, DefaultDelay) EXCEPT !.pc = "idle"]

InitWrappers ==
    /\ api = ApiIdle
    /\ PipeIdle

\* The wrapper reaches its call of _call_gemini_api (lines 92, 203, 280,
\* 369) with the module's model, which is None when its set-up failed.
CallGemini(w) ==
    /\ wrap' = [w EXCEPT !.pc = "calling"]
    /\ \E model \in ApiModels :
          api' = ApiStart(model, DefaultMaxRetries, DefaultDelay)

\* The texts a classification model can answer.
WrapClassifyTexts ==
    ClassifyTexts \cup
       {<<"S", "p", "a", "m">>, <<"\n", " ", "s", "P", "A", "m", " ">>,
        <<"p", "r", "o", "c", "e", "s", "s">>,
        <<"S", "P", "A", "M", " ", "P", "R", "O", "C", "E", "S", "S">>,
        <<"S", " ", "P", "A", "M">>,
        <<"P", "R", "O", "C", "E", "S", "S", "S">>,
        <<"K", "H", "Ô", "N", "G">>, <<" ">>}

\* gemini_service.py lines 76-92: classify_email builds its prompt and calls.
ClassifyEmailCall ==
    /\ wrap.pc = "idle"
    /\ CallGemini([NoWrap EXCEPT !.fn = "classify_email"])
    /\ UNCHANGED <<config, mail, unread, cb, delivered, sent, escalated,
                   oauth_token, token_expiry_time, now, ebay>>

\* gemini_service.py lines 94-108
ClassifyEmailReturn ==
    /\ wrap.pc = "calling"
    /\ wrap.fn = "classify_email"
    /\ api.pc = "done"
    /\ \E text \in WrapClassifyTexts :
          wrap' = [wrap EXCEPT !.pc = "done",
                               !.text = IF Usable(api.result) THEN text ELSE <<>>,
                               !.out = classify_email(api.result, text)]
    /\ UNCHANGED <<api, config, mail, unread, cb, delivered, sent, escalated,
                   oauth_token, token_expiry_time, now, ebay>>

\* The values json.loads can make of the text of a parameter model.
WrapSynthValues ==
    SynthValues \cup
       {Json("dict", TRUE, {"zz", "limit"}), Json("dict", TRUE, {"q", "zz"}),
        Json("dict", TRUE, {"limit", "filter"}), Json("list", TRUE, {}),
        Json("list", FALSE, {}), Json("list", TRUE, {"zz"}),
        Json("str", TRUE, {}), Json("str", FALSE, {})}

\* gemini_service.py lines 305-369: an empty body is answered with None at
\* once, any other body goes into the prompt of the call.
SearchParamsCall ==
    /\ wrap.pc = "idle"
    /\ \E email_body \in BOOLEAN :
          LET w == [NoWrap EXCEPT !.fn = "generate_ebay_search_params"] IN
          IF ~email_body
             THEN /\ wrap' = [w EXCEPT !.pc = "done", !.params = NoParams]
                  /\ api' = api
             ELSE CallGemini(w)
    /\ UNCHANGED <<config, mail, unread, cb, delivered, sent, escalated,
                   oauth_token, token_expiry_time, now, ebay>>

\* gemini_service.py lines 371-396
SearchParamsReturn ==
    /\ wrap.pc = "calling"
    /\ wrap.fn = "generate_ebay_search_params"
    /\ api.pc = "done"
    /\ \E value \in WrapSynthValues :
          wrap' = [wrap EXCEPT !.pc = "done",
                               !.value = IF Usable(api.result) THEN value
                                                               ELSE JsonNull,
                               !.params = generate_ebay_search_params(api.result,
                                                                      value)]
    /\ UNCHANGED <<api, config, mail, unread, cb, delivered, sent, escalated,
                   oauth_token, token_expiry_time, now, ebay>>

\* The texts an evaluation model can answer.
WrapEvaluateTexts ==
    EvaluateTexts \cup
       {<<"c", "ó">>, <<"\n", "C", "ó", " ">>, <<"K", "C", "Ó">>, <<"C">>,
        <<"C", "O">>, <<"k", "h", "ô", "n", "g">>, <<"C", "Ó", "C">>}

\* gemini_service.py lines 171-203: without items the answer is False at
\* once, else the items go into the prompt of the call.
RelevanceCall ==
    /\ wrap.pc = "idle"
    /\ \E items \in 0 .. MaxItems :
          LET w == [NoWrap EXCEPT !.fn = "evaluate_knowledge_relevance",
                                  !.items = items]
              r == evaluate_knowledge_relevance(items, NoResponse, <<>>)
          IN  IF ~r.called
                 THEN /\ wrap' = [w EXCEPT !.pc = "done", !.flag = r.result]
                      /\ api' = api
                 ELSE CallGemini(w)
    /\ UNCHANGED <<config, mail, unread, cb, delivered, sent, escalated,
                   oauth_token, token_expiry_time, now, ebay>>

\* gemini_service.py lines 205-219
RelevanceReturn ==
    /\ wrap.pc = "calling"
    /\ wrap.fn = "evaluate_knowledge_relevance"
    /\ api.pc = "done"
    /\ \E text \in WrapEvaluateTexts :
          LET r == evaluate_knowledge_relevance(wrap.items, api.result, text) IN
          wrap' = [wrap EXCEPT !.pc = "done",
                               !.text = IF Usable(api.result) THEN text ELSE <<>>,
                               !.flag = r.result]
    /\ UNCHANGED <<api, config, mail, unread, cb, delivered, sent, escalated,
                   oauth_token, token_expiry_time, now, ebay>>

\* gemini_service.py lines 235-280: without items the canned text is the
\* answer at once, else the items go into the prompt of the call.
ResponseCall ==
    /\ wrap.pc = "idle"
    /\ \E items \in 0 .. MaxItems :
          LET w == [NoWrap EXCEPT !.fn = "generate_response", !.items = items]
              r == generate_response(items, NoResponse, <<>>)
          IN  IF ~r.called
                 THEN /\ wrap' = [w EXCEPT !.pc = "done", !.out = r.result]
                      /\ api' = api
                 ELSE CallGemini(w)
    /\ UNCHANGED <<config, mail, unread, cb, delivered, sent, escalated,
                   oauth_token, token_expiry_time, now, ebay>>

\* gemini_service.py lines 282-293
ResponseReturn ==
    /\ wrap.pc = "calling"
    /\ wrap.fn = "generate_response"
    /\ api.pc = "done"
    /\ \E text \in ReplyTexts :
          LET r == generate_response(wrap.items, api.result, text) IN
          wrap' = [wrap EXCEPT !.pc = "done",
                               !.text = IF Usable(api.result) THEN text ELSE <<>>,
                               !.out = r.result]
    /\ UNCHANGED <<api, config, mail, unread, cb, delivered, sent, escalated,
                   oauth_token, token_expiry_time, now, ebay>>

\* The wrappers call with the default max_retries of 3, so the loop of
\* _call_gemini_api is never left through its condition (line 61).
NextWrappers ==
    \/ ClassifyEmailCall
    \/ ClassifyEmailReturn
    \/ SearchParamsCall
    \/ SearchParamsReturn
    \/ RelevanceCall
    \/ RelevanceReturn
    \/ ResponseCall
    \/ ResponseReturn
    \/ ApiEnter
    \/ ApiAttempt
    \/ ApiSleep

SpecWrappers == InitWrappers /\ [][NextWrappers]_vars

(***************************************************************************)
(* Calls of search_ebay_items one after the other, the token cache staying *)
(* between them.                                                           *)
(***************************************************************************)
InitSearch ==
    /\ api = ApiIdle
    /\ config \in {c \in Configs : c.telegram}
    /\ mail = [m \in Msgs |-> NotArrived]
    /\ unread = <<>>
    /\ cb = [p \in Procs |-> NewCycle]
    /\ delivered = 0
    /\ sent = [m \in Msgs |-> 0]
    /\ escalated = [m \in Msgs |-> 0]
    /\ oauth_token = FALSE
    /\ FnIdle

\* What a caller can hand to search_ebay_items as its query.
EbayParams ==
    {Json("dict", TRUE, {"q"}), Json("dict", TRUE, {"q", "limit"}),
     Json("dict", TRUE, {"filter"}), Json("dict", TRUE, {"zz"}),
     Json("dict", FALSE, {}), Json("list", TRUE, {"q"}),
     Json("str", TRUE, {"q"}), Json("num", TRUE, {}), JsonNull}

\* ebay_service.py lines 88-171: one call of search_ebay_items.
SearchEbayItems ==
    /\ ebay.calls < MaxSearches
    /\ \E params \in EbayParams, fresh \in BOOLEAN,
          exchange \in {"ok", "no_access_token", "error"},
          search \in {"ok", "error"}, found \in 0 .. MaxItems :
          LET r == search_ebay_items(params, oauth_token, fresh, config,
                                     exchange, search, found)
              request == r.net /= <<>> /\ r.net[1] = "oauth_token_request"
          IN  /\ oauth_token' = r.cached
              /\ ebay' = [ebay EXCEPT !.fn = "search_ebay_items",
                                      !.params = params,
                                      !.hit = r.token /\ ~request,
                                      !.request = request,
                                      !.token = r.token,
                                      !.raised = r.raised,
                                      !.items = r.items,
                                      !.net = r.net,
                                      !.calls = @ + 1]
    /\ UNCHANGED <<api, config, mail, unread, cb, delivered, sent, escalated,
                   token_expiry_time, now, wrap>>

NextSearch == SearchEbayItems

SpecSearch == InitSearch /\ [][NextSearch]_vars

(***************************************************************************)
(* Calls of get_oauth_token one after the other while time passes.         *)
(***************************************************************************)
InitToken == InitSearch

\* The time between the end of a call and the cache test of the next one,
\* and the time the token request takes.
Waits == {0, 59, 60}
Elapsed == {0, 1}

\* The expires_in of a token response: shorter than the margin, longer, and
\* the value line 69 takes when the response declares none.
ExpiresIns == {30, 120, DefaultExpiresIn}

\* ebay_service.py lines 26-86: one call of get_oauth_token at time
\* now + wait.  Lines 68-70 store the token and its expiry for a response
\* with or without access_token; line 70 reads the clock after the request.
GetOAuthToken ==
    /\ ebay.calls < MaxTokenCalls
    /\ \E wait \in Waits, exchange \in {"ok", "no_access_token", "error"},
          expires_in \in ExpiresIns, elapsed \in Elapsed :
          LET t == now + wait
              r == get_oauth_token(oauth_token, Fresh(t, token_expiry_time),
                                   config, exchange)
              stored == r.request /\ exchange \in {"ok", "no_access_token"}
              after == IF r.request THEN t + elapsed ELSE t
          IN  /\ now' = after
              /\ oauth_token' = r.cached
              /\ token_expiry_time' =
                    IF stored THEN ExpiryTime(after, expires_in)
                              ELSE token_expiry_time
              /\ ebay' = [ebay EXCEPT
                            !.fn = "get_oauth_token",
                            !.at = t,
                            !.hit = r.token /\ ~r.request,
                            !.request = r.request,
                            !.token = r.token,
                            !.net = IF r.request THEN <<"oauth_token_request">>
                                                 ELSE <<>>,
                            !.acquired = IF stored THEN after ELSE @,
                            !.expires_in = IF stored THEN expires_in ELSE @,
                            !.calls = @ + 1]
    /\ UNCHANGED <<api, config, mail, unread, cb, delivered, sent, escalated,
                   wrap>>

NextToken == GetOAuthToken

SpecToken == InitToken /\ [][NextToken]_vars

(***************************************************************************)
(* get_oauth_token called by two dispatch cycles at once.  The globals     *)
(* oauth_token and token_expiry_time (ebay_service.py lines 23-24) are     *)
(* read at line 34 and written at lines 68 and 70 with no lock; each of    *)
(* these is a step of its own.  The statements of lines 68-70 take no      *)
(* time: the clock stands still while a thread is between them.  In this   *)
(* specification ebay holds one record for each calling thread.            *)
(***************************************************************************)
\* A thread outside get_oauth_token: at is the time of its last cache test,
\* hit whether that call returned the cached token and returned the time at
\* which the token it returned expires; access_token, issued and expires_in
\* describe the response it is storing; holds says that oauth_token is the
\* token of its response and declared when that token expires.
NoTokenCall ==
    [pc |-> "idle", at |-> 0, hit |-> FALSE, returned |-> 0,
     access_token |-> FALSE, issued |-> 0, expires_in |-> 0,
     holds |-> FALSE, declared |-> 0, calls |-> 0]

InitTokenConcurrent ==
    /\ api = ApiIdle
    /\ config \in {c \in Configs : c.telegram}
    /\ mail = [m \in Msgs |-> NotArrived]
    /\ unread = <<>>
    /\ cb = [p \in Procs |-> NewCycle]
    /\ delivered = 0
    /\ sent = [m \in Msgs |-> 0]
    /\ escalated = [m \in Msgs |-> 0]
    /\ oauth_token = FALSE
    /\ token_expiry_time = 0
    /\ now = 0
    /\ ebay = [p \in Procs |-> NoTokenCall]
    /\ wrap = NoWrap

RECURSIVE SumCalls(_)
SumCalls(ps) ==
    IF ps = {} THEN 0
    ELSE LET p == CHOOSE q \in ps : TRUE
         IN  ebay[p].calls + SumCalls(ps \ {p})

\* When the token that oauth_token holds expires: the response that line 68
\* stored last says so.
HeldDeclared ==
    IF \E q \in Procs : ebay[q].holds
       THEN ebay[CHOOSE q \in Procs : ebay[q].holds].declared
       ELSE 0

\* Some thread is between the answer of its token request and its return.
Storing == \E q \in Procs : ebay[q].pc \in {"store", "expiry"}

\* ebay_service.py lines 34-44: the cache test and the configuration tests.
TokenEnter(p) ==
    /\ ebay[p].pc = "idle"
    /\ SumCalls(Procs) < MaxTokenCalls
    /\ \E wait \in Waits :
          LET t == now + wait
              r == get_oauth_token(oauth_token, Fresh(t, token_expiry_time),
                                   config, "ok")
              e == [ebay[p] EXCEPT !.at = t, !.calls = @ + 1,
                                   !.hit = r.token /\ ~r.request,
                                   !.returned = IF r.token /\ ~r.request
                                                   THEN HeldDeclared ELSE 0]
          IN  /\ Storing => wait = 0
              /\ now' = t
              /\ ebay' = [ebay EXCEPT ![p] =
                            IF r.request THEN [e EXCEPT !.pc = "request"]
                                         ELSE e]
    /\ UNCHANGED <<api, config, mail, unread, cb, delivered, sent, escalated,
                   wrap, oauth_token, token_expiry_time>>

\* ebay_service.py lines 57-66 and 81-86: the token request and its answer.
TokenResponse(p) ==
    /\ ebay[p].pc = "request"
    /\ \E exchange \in {"ok", "no_access_token", "error"},
          expires_in \in ExpiresIns, elapsed \in Elapsed :
          /\ Storing => elapsed = 0
          /\ now' = now + elapsed
          /\ ebay' = [ebay EXCEPT ![p] =
                        IF exchange = "error"
                           THEN [@ EXCEPT !.pc = "idle"]
                           ELSE [@ EXCEPT !.pc = "store",
                                          !.access_token = exchange = "ok",
                                          !.issued = now + elapsed,
                                          !.expires_in = expires_in]]
    /\ UNCHANGED <<api, config, mail, unread, cb, delivered, sent, escalated,
                   wrap, oauth_token, token_expiry_time>>

\* ebay_service.py line 68: oauth_token = token_data.get("access_token").
StoreToken(p) ==
    /\ ebay[p].pc = "store"
    /\ oauth_token' = ebay[p].access_token
    /\ ebay' = [q \in Procs |->
                  IF q = p
                     THEN [ebay[q] EXCEPT
                             !.pc = "expiry",
                             !.holds = ebay[p].access_token,
                             !.declared = ebay[p].issued + ebay[p].expires_in]
                     ELSE [ebay[q] EXCEPT !.holds = FALSE]]
    /\ UNCHANGED <<api, config, mail, unread, cb, delivered, sent, escalated,
                   wrap, now, token_expiry_time>>

\* ebay_service.py lines 69-79: token_expiry_time is set from the clock and
\* from this response's expires_in, and the call returns.
StoreExpiry(p) ==
    /\ ebay[p].pc = "expiry"
    /\ token_expiry_time' = ExpiryTime(now, ebay[p].expires_in)
    /\ ebay' = [ebay EXCEPT ![p].pc = "idle"]
    /\ UNCHANGED <<api, config, mail, unread, cb, delivered, sent, escalated,
                   wrap, now, oauth_token>>

NextTokenConcurrent ==
    \E p \in Procs :
       \/ TokenEnter(p)
       \/ TokenResponse(p)
       \/ StoreToken(p)
       \/ StoreExpiry(p)

SpecTokenConcurrent == InitTokenConcurrent /\ [][NextTokenConcurrent]_vars

(***************************************************************************)
(* Claims about the dispatch cycle.                                        *)
(***************************************************************************)
DispatchOutcomes ==
    {"REPLIED", "ESCALATED", "MARKED_SPAM", "SKIPPED_EMPTY", "FAILED"}

\* process_pubsub_message is over: it returned, or it raised to the callback.
Ended(c) == c.pc \in {"return", "nack"}

Invoked(c, f) == Count(c.calls, f) >= 1

IsSpam(c) == ~c.classification.isNone /\ c.classification.v = SPAM

\* C1: a cycle that fetched a message ends with exactly one DispatchOutcome,
\* and it has called mark_as_read exactly when that outcome is REPLIED,
\* MARKED_SPAM, SKIPPED_EMPTY, or ESCALATED with a delivered notification.
C1_OneOutcomeMarkReadIff ==
    \A p \in Procs :
       LET c == cb[p] IN
       /\ c.outcomes \subseteq DispatchOutcomes
       /\ Cardinality(c.outcomes) <= 1
       /\ (Ended(c) /\ c.fetched)
             => /\ Cardinality(c.outcomes) = 1
                /\ Invoked(c, "mark_as_read")
                     <=> \/ c.outcomes \subseteq
                               {"REPLIED", "MARKED_SPAM", "SKIPPED_EMPTY"}
                         \/ (c.outcomes = {"ESCALATED"} /\ c.forwarded)

C1_Witness ==
    \E p \in Procs :
       /\ cb[p].pc = "return"
       /\ cb[p].outcomes = {"ESCALATED"}
       /\ cb[p].forwarded
       /\ Invoked(cb[p], "mark_as_read")

\* C2: a cycle that fetched a message and met no exception performs exactly
\* one terminal action: at most one send_reply, at most one
\* run_async_forward, never both, and never none of reply, escalation and
\* mark-read.
C2_ExactlyOneTerminalAction ==
    \A p \in Procs :
       LET c == cb[p]
           replies == Count(c.calls, "send_reply")
           escalations == Count(c.calls, "run_async_forward")
           marks == Count(c.calls, "mark_as_read")
       IN  /\ replies <= 1
           /\ escalations <= 1
           /\ ~(replies >= 1 /\ escalations >= 1)
           /\ (Ended(c) /\ c.fetched /\ c.fault = "")
                 => replies + escalations + marks >= 1

\* C3: a notification is acked only when no exception reached the callback,
\* and a notification whose cycle met an exception of the mailbox gateway or
\* of the search client is nacked.
C3_FaultsAreNacked ==
    \A p \in Procs :
       LET c == cb[p] IN
       /\ c.ack = "acked" => c.faultIn /= "decode"
       /\ (c.pc = "idle"
             /\ c.faultIn \in {"get_email_details", "search_ebay_items"})
             => c.ack = "nacked"

\* C4: whatever the payload handed to process_pubsub_message and whatever a
\* collaborator does, no exception leaves process_pubsub_message (the
\* notification is never nacked for it), after a cycle the callback can take
\* the next notification, and a payload that does not decode to a JSON
\* object causes no call of a collaborator and no request.
C4_DispatcherNeverRaises ==
    \A p \in Procs :
       LET c == cb[p] IN
       /\ ~DecodeFails(c.payload) => (c.pc /= "nack" /\ c.ack /= "nacked")
       /\ (c.ack /= "none" /\ delivered < MaxNotifs) => ENABLED Deliver(p)
       /\ c.payload \in {"not_json", "not_object"}
             => /\ c.calls = <<>>
                /\ c.net = <<>>
                /\ c.pc \in {"idle", "decode", "parse", "return"}
                /\ ~c.fetched

C4_Witness ==
    \E p \in Procs :
       /\ cb[p].payload = "not_json"
       /\ cb[p].fault = "JSONDecodeError"
       /\ cb[p].ack = "acked"

\* C5: with notifications handled one after the other, no message is sent
\* more than one reply.
C5_NeverDoubleReplied == \A m \in Msgs : sent[m] <= 1

\* C6: a cycle that fetched a message with a body, did not classify it SPAM,
\* did not send a reply successfully and met no exception has called
\* run_async_forward; a cycle that called send_reply has not.
C6_UnresolvedIsEscalated ==
    \A p \in Procs :
       LET c == cb[p] IN
       /\ (Ended(c) /\ c.fetched /\ mail[c.message_id].body /\ c.fault = ""
             /\ ~IsSpam(c) /\ ~c.success)
             => Invoked(c, "run_async_forward")
       /\ Invoked(c, "send_reply") => ~Invoked(c, "run_async_forward")

(***************************************************************************)
(* Claims about _call_gemini_api.                                          *)
(***************************************************************************)
AllRaise(hist) == \A i \in DOMAIN hist : hist[i] = "raise"

\* C7 (state part): the call issues at most max_retries generate_content
\* calls; when every attempt raises it has made exactly max_retries attempts
\* when it returns, and it returns None; an attempt k that delivers a
\* response is the last one, and a response with parts is what is returned.
C7_Attempts ==
    /\ Len(api.hist) <= api.max_retries
    /\ (api.pc = "done" /\ api.model /= "None" /\ AllRaise(api.hist))
          => (Len(api.hist) = api.max_retries /\ api.result = NoResponse)
    /\ \A k \in DOMAIN api.hist :
          api.hist[k] /= "raise"
             => /\ k = Len(api.hist)
                /\ api.pc = "done"
                /\ AllRaise(SubSeq(api.hist, 1, k - 1))
                /\ (api.hist[k] = "parts" => api.result = Response(TRUE, FALSE))

\* C7: _call_gemini_api always terminates, and the attempt counts of
\* C7_Attempts hold throughout.
C7_TerminatesWithinMaxRetries == []C7_Attempts /\ <>(api.pc = "done")

C7_Witness ==
    /\ api.pc = "done"
    /\ api.max_retries = DefaultMaxRetries
    /\ api.hist = <<"raise", "raise", "parts">>

\* C8: the i-th sleep lasts base * 2^(i-1); a sleep happens only between two
\* attempts, so a call that made n >= 1 attempts has slept n-1 times when it
\* returns (N-1 times for a call whose N attempts all failed).
C8_BackoffSchedule ==
    /\ \A i \in DOMAIN api.sleeps : api.sleeps[i] = api.base * Pow2(i - 1)
    /\ Len(api.sleeps) <= Len(api.hist)
    /\ api.pc = "sleep" => Len(api.sleeps) = Len(api.hist) - 1
    /\ api.pc = "loop" => Len(api.sleeps) = Len(api.hist)
    /\ (api.pc = "done" /\ api.hist /= <<>>)
          => Len(api.sleeps) = Len(api.hist) - 1
    /\ (api.pc = "done" /\ api.hist = <<>>) => api.sleeps = <<>>

C8_Witness ==
    /\ api.pc = "done"
    /\ api.base = DefaultDelay
    /\ api.hist = <<"raise", "raise", "raise", "raise">>
    /\ api.sleeps = <<5, 10, 20>>

\* C9: a blocked response is never retried: the attempt that was blocked is
\* the last one, the call returns None right after it without a sleep, and a
\* prompt blocked on its first attempt ends with attempt count 1, no sleep.
C9_BlockedNeverRetried ==
    /\ \A i \in DOMAIN api.hist :
          api.hist[i] = "blocked"
             => /\ i = Len(api.hist)
                /\ api.pc = "done"
                /\ api.result = NoResponse
                /\ Len(api.sleeps) = i - 1
    /\ (api.hist /= <<>> /\ api.hist[1] = "blocked")
          => (Len(api.hist) = 1 /\ api.sleeps = <<>>)

C9_Witness ==
    /\ api.pc = "done"
    /\ api.hist = <<"blocked">>
    /\ api.result = NoResponse

\* C10: with an uninitialised model (None) the call makes no
\* generate_content call and no sleep, and it returns None.
C10_NoModelNoCall ==
    api.model = "None"
       => /\ api.hist = <<>>
          /\ api.sleeps = <<>>
          /\ api.pc \in {"enter", "done"}
          /\ (api.pc = "done" => api.result = NoResponse)

C10_Witness ==
    /\ api.model = "None"
    /\ api.pc = "done"
    /\ api.max_retries = DefaultMaxRetries

(***************************************************************************)
(* Claims about the Gemini wrappers.                                       *)
(***************************************************************************)
\* A text without the whitespace before its first and after its last
\* character that is not whitespace.
Trimmed(s) ==
    LET idx == {i \in DOMAIN s : s[i] \notin Whitespace} IN
    IF idx = {} THEN <<>>
    ELSE SubSeq(s, CHOOSE i \in idx : \A j \in idx : i <= j,
                   CHOOSE i \in idx : \A j \in idx : i >= j)

\* Equal up to the case of the letters.
SameLetters(a, b) ==
    /\ Len(a) = Len(b)
    /\ \A i \in DOMAIN a : UpperChar(a[i]) = UpperChar(b[i])

\* classify_email returned on a response that has parts.
Classified ==
    wrap.fn = "classify_email" /\ wrap.pc = "done" /\ Usable(api.result)

\* C11: for a model text that, trimmed and with case ignored, is SPAM or
\* PROCESS, classify_email returns that label in upper case; for every other
\* model text it returns PROCESS.
C11_UnexpectedTextIsProcess ==
    Classified =>
       LET t == Trimmed(wrap.text) IN
       /\ SameLetters(t, SPAM) => wrap.out = Some(SPAM)
       /\ SameLetters(t, PROCESS) => wrap.out = Some(PROCESS)
       /\ (~SameLetters(t, SPAM) /\ ~SameLetters(t, PROCESS))
             => wrap.out = Some(PROCESS)

C11_Witness ==
    /\ Classified
    /\ wrap.text = <<"S", "P", "A", "M", ".">>
    /\ wrap.out = Some(PROCESS)

\* How the call of _call_gemini_api made by the wrapper ended.
LastAttempt == IF api.hist = <<>> THEN "none" ELSE api.hist[Len(api.hist)]

\* The call failed: no model, or the last attempt raised.
LlmFailed == api.pc = "done" /\ (api.model = "None" \/ LastAttempt = "raise")

LlmBlocked == api.pc = "done" /\ LastAttempt = "blocked"

\* The call returned a completion, with or without parts.
LlmCompleted == api.pc = "done" /\ LastAttempt \in {"parts", "noparts"}

ClassifyEmailReturned == wrap.fn = "classify_email" /\ wrap.pc = "done"

\* C12 as stated: classify_email returns None only when the LLM call failed
\* or was blocked, and whenever the call returned a completion the result is
\* SPAM or PROCESS.
C12_NoneOnlyOnFailureOrBlock ==
    ClassifyEmailReturned =>
       /\ wrap.out.isNone => (LlmFailed \/ LlmBlocked)
       /\ LlmCompleted => wrap.out \in {Some(SPAM), Some(PROCESS)}

\* C12 amended: classify_email returns None exactly when the LLM call failed,
\* was blocked, or returned a completion without parts; whenever the call
\* returned a completion with parts the result is SPAM or PROCESS.
C12_NoneIffNoParts ==
    ClassifyEmailReturned =>
       /\ wrap.out.isNone
             <=> (LlmFailed \/ LlmBlocked \/ LastAttempt = "noparts")
       /\ LastAttempt = "parts" => wrap.out \in {Some(SPAM), Some(PROCESS)}

C12_Witness ==
    /\ ClassifyEmailReturned
    /\ api.hist = <<"raise", "noparts">>
    /\ wrap.out.isNone

SearchParamsReturned ==
    wrap.fn = "generate_ebay_search_params" /\ wrap.pc = "done"

\* C13: when the model's text parses to a mapping that has keys but no 'q',
\* whatever those keys are, generate_ebay_search_params returns None; so a
\* mapping it returns is empty or contains 'q'.
C13_OtherKeysRequireQ ==
    SearchParamsReturned =>
       /\ (wrap.value.kind = "dict" /\ wrap.value.keys /= {}
              /\ "q" \notin wrap.value.keys)
             => wrap.params.isNone
       /\ (~wrap.params.isNone /\ wrap.params.v.kind = "dict"
              /\ wrap.params.v.keys /= {})
             => "q" \in wrap.params.v.keys

\* C14: generate_ebay_search_params returns None or a mapping: a model text
\* that is not valid JSON, or is a JSON string, list or number, yields None,
\* and the dispatcher hands nothing but a mapping to search_ebay_items.
C14_NoneOrMapping ==
    /\ SearchParamsReturned =>
          /\ (Usable(api.result) /\ wrap.value.kind /= "dict")
                => wrap.params.isNone
          /\ ~wrap.params.isNone => wrap.params.v.kind = "dict"
    /\ \A p \in Procs :
          Invoked(cb[p], "search_ebay_items")
             => cb[p].search_params.v.kind = "dict"

(***************************************************************************)
(* Claims about the eBay client.                                           *)
(***************************************************************************)
SearchReturned == ebay.fn = "search_ebay_items"

\* C15: search_ebay_items called with a mapping that lacks 'q' returns an
\* empty list and makes no request, neither to the search endpoint nor to
\* the token endpoint, whatever the token cache holds.
C15_NoKeywordNoRequest ==
    (SearchReturned /\ ebay.params.kind = "dict" /\ "q" \notin ebay.params.keys)
       => /\ ~ebay.raised
          /\ ebay.items = 0
          /\ ebay.net = <<>>

\* C16: search_ebay_items never raises to its caller, whatever its input and
\* whatever fails, and it returns an empty list when the token or the search
\* request fails.
C16_SearchNeverRaises ==
    SearchReturned
       => /\ ~ebay.raised
          /\ (~ebay.token \/ "ebay_search_request" \notin Range(ebay.net))
                => ebay.items = 0

\* C17: a call of get_oauth_token returns the cached token without a token
\* request exactly when a token is cached and the time of the call is
\* earlier than the time that token was acquired + its expires_in - 60; such
\* a call leaves the cache alone; every other call goes on to acquire a
\* token, which with credentials configured means a token request.
C17_CachedTokenOnlyBeforeMargin ==
    [][ebay'.calls = ebay.calls + 1
          => /\ ebay'.hit
                   <=> /\ oauth_token
                       /\ ebay'.at < ebay.acquired + ebay.expires_in - 60
             /\ ebay'.hit
                   => /\ ebay'.token
                      /\ ~ebay'.request
                      /\ UNCHANGED <<oauth_token, token_expiry_time>>
             /\ ~ebay'.hit => (ebay'.request <=> config.ebay)]_vars

C17_Witness ==
    /\ ebay.fn = "get_oauth_token"
    /\ ebay.hit
    /\ ebay.expires_in = 120
    /\ ebay.at = ebay.acquired + 59

\* C18: when get_oauth_token gives search_ebay_items no token (credentials
\* missing, token request failed, response without access_token), the search
\* returns an empty list without a search request and without raising, and
\* the dispatcher goes on as for zero results: no evaluation, no generation,
\* no reply; with a mapping as parameters the message is handed to
\* run_async_forward and the cycle returns normally.
C18_TokenFailureIsZeroResults ==
    \A p \in Procs :
       LET c == cb[p] IN
       /\ (Invoked(c, "search_ebay_items") /\ ~config.ebay) => c.token_failed
       /\ c.token_failed
             => /\ c.items = 0
                /\ "ebay_search_request" \notin Range(c.net)
                /\ c.faultIn /= "search_ebay_items"
                /\ c.pc \in {"forward", "mark", "return"}
                /\ ~Invoked(c, "evaluate_knowledge_relevance")
                /\ ~Invoked(c, "generate_response")
                /\ ~Invoked(c, "send_reply")
                /\ c.search_params.v.kind = "dict"
                      => /\ c.fault = ""
                         /\ Ended(c) => /\ Invoked(c, "run_async_forward")
                                        /\ c.outcomes = {"ESCALATED"}

C18_Witness ==
    \E p \in Procs :
       /\ cb[p].token_failed
       /\ cb[p].pc = "return"
       /\ "oauth_token_request" \in Range(cb[p].net)
       /\ Invoked(cb[p], "run_async_forward")

(***************************************************************************)
(* Claims about evaluate_knowledge_relevance.                              *)
(***************************************************************************)
RelevanceReturned ==
    wrap.fn = "evaluate_knowledge_relevance" /\ wrap.pc = "done"

\* C19: evaluate_knowledge_relevance called with an empty item list returns
\* False and _call_gemini_api is not called: no attempt, no sleep.
C19_NoItemsNoCall ==
    (wrap.fn = "evaluate_knowledge_relevance" /\ wrap.items = 0)
       => /\ wrap.pc = "done"
          /\ ~wrap.flag
          /\ api = ApiIdle

C19_Witness ==
    /\ RelevanceReturned
    /\ wrap.items = 0
    /\ ~wrap.flag
    /\ api.pc = "idle"

BeginsWith(s, prefix) ==
    /\ Len(prefix) <= Len(s)
    /\ \A i \in DOMAIN prefix : s[i] = prefix[i]

BeginsWithIgnoringCase(s, prefix) ==
    /\ Len(prefix) <= Len(s)
    /\ \A i \in DOMAIN prefix : UpperChar(s[i]) = UpperChar(prefix[i])

\* C20 as stated: evaluate_knowledge_relevance returns True only if the LLM
\* call returned a completion whose trimmed text begins with CÓ.
C20_TrueOnlyIfBeginsWithToken ==
    (RelevanceReturned /\ wrap.flag)
       => /\ LastAttempt = "parts"
          /\ BeginsWith(Trimmed(wrap.text), <<"C", "Ó">>)

\* C20 amended: evaluate_knowledge_relevance returns True exactly when it was
\* given items and the LLM call returned a completion with parts whose
\* trimmed text begins with CÓ, the case of the letters ignored; for every
\* other completion and for a failed or blocked call it returns False.
C20_TrueIffBeginsWithTokenAnyCase ==
    RelevanceReturned
       => (wrap.flag
             <=> /\ wrap.items > 0
                 /\ LastAttempt = "parts"
                 /\ BeginsWithIgnoringCase(Trimmed(wrap.text), <<"C", "Ó">>))

C20_Witness ==
    /\ RelevanceReturned
    /\ wrap.text = <<"\n", "C", "ó", " ">>
    /\ wrap.flag

(***************************************************************************)
(* Claims about generate_response.                                         *)
(***************************************************************************)
ResponseReturned == wrap.fn = "generate_response" /\ wrap.pc = "done"

\* C21: generate_response called with an empty item list returns the fixed
\* fallback text and _call_gemini_api is not called: no attempt, no sleep.
C21_NoItemsFallbackNoCall ==
    (wrap.fn = "generate_response" /\ wrap.items = 0)
       => /\ wrap.pc = "done"
          /\ wrap.out = Some(Fallback)
          /\ api = ApiIdle

C21_Witness ==
    /\ ResponseReturned
    /\ wrap.items = 0
    /\ wrap.out = Some(Fallback)
    /\ api.pc = "idle"

\* C22 as stated: for a non-empty item list generate_response returns None
\* only when the LLM call failed or was blocked, and whenever the call
\* returned a completion it returns that completion's text.
C22_NoneOnlyOnFailureOrBlock ==
    (ResponseReturned /\ wrap.items > 0)
       => /\ wrap.out.isNone => (LlmFailed \/ LlmBlocked)
          /\ LlmCompleted => wrap.out = Some(Trimmed(wrap.text))

\* C22 amended: for a non-empty item list generate_response returns None
\* exactly when the LLM call failed, was blocked, or returned a completion
\* without parts; for a completion with parts it returns the trimmed text of
\* the completion, which can be the empty text.
C22_NoneIffNoPartsElseTrimmedText ==
    (ResponseReturned /\ wrap.items > 0)
       => /\ wrap.out.isNone
                <=> (LlmFailed \/ LlmBlocked \/ LastAttempt = "noparts")
          /\ LastAttempt = "parts" => wrap.out = Some(Trimmed(wrap.text))

C22_Witness ==
    /\ ResponseReturned
    /\ wrap.items > 0
    /\ api.hist = <<"noparts">>
    /\ wrap.out.isNone

(***************************************************************************)
(* Claims about the end-to-end scenarios of the dispatch cycle.            *)
(***************************************************************************)
NoneInvoked(c, fs) == \A f \in fs : ~Invoked(c, f)

\* The cycle returned after one call of mark_as_read for its message, and
\* the message lost its UNREAD label if the modify request went through.
MarkedOnce(c) ==
    /\ Count(c.calls, "mark_as_read") = 1
    /\ c.marked => c.message_id \notin Range(unread)

\* C23: a cycle whose fetched message has an empty body ends with outcome
\* SKIPPED_EMPTY after one call of mark_as_read, and calls no Gemini wrapper,
\* no search, no send_reply and no run_async_forward.
C23_EmptyBodySkipped ==
    \A p \in Procs :
       LET c == cb[p] IN
       (c.fetched /\ ~mail[c.message_id].body)
          => /\ c.outcomes = {"SKIPPED_EMPTY"}
             /\ c.fault = ""
             /\ c.pc \in {"mark", "return"}
             /\ NoneInvoked(c, {"classify_email", "generate_ebay_search_params",
                                "search_ebay_items",
                                "evaluate_knowledge_relevance",
                                "generate_response", "send_reply",
                                "run_async_forward"})
             /\ Range(c.net) \subseteq {"gmail_modify"}
             /\ c.pc = "return" => MarkedOnce(c)

C23_Witness ==
    \E p \in Procs :
       /\ cb[p].pc = "return"
       /\ cb[p].fetched
       /\ ~mail[cb[p].message_id].body
       /\ cb[p].marked
       /\ cb[p].outcomes = {"SKIPPED_EMPTY"}

\* C24: a cycle whose message is classified SPAM ends with outcome
\* MARKED_SPAM after one call of mark_as_read, and calls no synthesis, no
\* search, no evaluation, no generation, no send_reply, no run_async_forward.
C24_SpamMarkedRead ==
    \A p \in Procs :
       LET c == cb[p] IN
       IsSpam(c)
          => /\ c.outcomes = {"MARKED_SPAM"}
             /\ c.fault = ""
             /\ c.pc \in {"mark", "return"}
             /\ NoneInvoked(c, {"generate_ebay_search_params",
                                "search_ebay_items",
                                "evaluate_knowledge_relevance",
                                "generate_response", "send_reply",
                                "run_async_forward"})
             /\ Range(c.net) \subseteq {"gmail_modify"}
             /\ c.pc = "return" => MarkedOnce(c)

C24_Witness ==
    \E p \in Procs :
       /\ cb[p].pc = "return"
       /\ IsSpam(cb[p])
       /\ cb[p].marked
       /\ cb[p].outcomes = {"MARKED_SPAM"}

\* The text that reached the support chat names the sender, the subject and
\* the id of the cycle's message, a preview that is the body cut at
\* PreviewLength characters, and a link to the message's thread.
EscalationDescribes(c) ==
    LET t == c.escalation IN
    /\ t.sender = c.message_id
    /\ t.subject = c.message_id
    /\ t.message_id = c.message_id
    /\ t.body_preview <= PreviewLength
    /\ t.body_preview <= t.body_len
    /\ t.body_preview = t.body_len \/ t.body_preview = PreviewLength
    /\ t.gmail_link = thread_id(c.message_id)

NothingUsable(search_params) ==
    \/ search_params.isNone
    \/ ~search_params.v.truthy
    \/ "q" \notin search_params.v.keys

\* C25: when the synthesizer returned None, an empty value or a value
\* without 'q', the cycle calls run_async_forward next and calls neither
\* search nor evaluation nor generation nor send_reply; the text that is
\* sent to the support chat describes the cycle's message.
C25_NoParamsEscalates ==
    \A p \in Procs :
       LET c == cb[p] IN
       (Invoked(c, "generate_ebay_search_params")
          /\ NothingUsable(c.search_params))
          => /\ c.pc \in {"forward", "mark", "return"}
             /\ c.fault = ""
             /\ NoneInvoked(c, {"search_ebay_items",
                                "evaluate_knowledge_relevance",
                                "generate_response", "send_reply"})
             /\ c.pc /= "forward"
                   => /\ Count(c.calls, "run_async_forward") = 1
                      /\ c.outcomes = {"ESCALATED"}
                      /\ "telegram_send_message" \in Range(c.net)
                            => EscalationDescribes(c)

C25_Witness ==
    \E p \in Procs :
       /\ cb[p].pc = "return"
       /\ Invoked(cb[p], "generate_ebay_search_params")
       /\ ~cb[p].search_params.isNone
       /\ cb[p].search_params.v.truthy
       /\ "q" \notin cb[p].search_params.v.keys
       /\ cb[p].forwarded
       /\ cb[p].escalation.body_len > PreviewLength
       /\ cb[p].escalation.body_preview = PreviewLength

\* The search was called with a result that has 'q' and returned no item.
SearchFoundNothing(c) ==
    /\ Invoked(c, "search_ebay_items")
    /\ c.faultIn /= "search_ebay_items"
    /\ "q" \in c.search_params.v.keys
    /\ c.items = 0

EscalatedWithoutAnswer(c) ==
    /\ c.pc \in {"forward", "mark", "return"}
    /\ c.fault = ""
    /\ NoneInvoked(c, {"evaluate_knowledge_relevance", "generate_response",
                       "send_reply"})
    /\ c.pc /= "forward"
          => /\ Count(c.calls, "run_async_forward") = 1
             /\ c.outcomes = {"ESCALATED"}

\* C26: when the synthesizer returned a result with 'q' and the search
\* returned no item, the cycle escalates: it calls run_async_forward and
\* calls neither evaluation nor generation nor send_reply.
C26_NoItemsEscalates ==
    \A p \in Procs : SearchFoundNothing(cb[p]) => EscalatedWithoutAnswer(cb[p])

\* The same when the result with 'q' is a mapping.
C26_MappingNoItemsEscalates ==
    \A p \in Procs :
       (SearchFoundNothing(cb[p]) /\ cb[p].search_params.v.kind = "dict")
          => EscalatedWithoutAnswer(cb[p])

C26_Witness ==
    \E p \in Procs :
       /\ cb[p].pc = "return"
       /\ Invoked(cb[p], "search_ebay_items")
       /\ ~cb[p].token_failed
       /\ "ebay_search_request" \in Range(cb[p].net)
       /\ cb[p].items = 0
       /\ cb[p].search_params.v.kind = "dict"
       /\ cb[p].forwarded
       /\ cb[p].outcomes = {"ESCALATED"}

IsProcess(c) == ~c.classification.isNone /\ c.classification.v = PROCESS

\* Scenario 4: PROCESS, parameters with 'q', items found and judged
\* sufficient, a reply text generated and the send request accepted.
RepliedScenario(c) ==
    /\ IsProcess(c)
    /\ ~c.search_params.isNone /\ "q" \in c.search_params.v.keys
    /\ c.items > 0
    /\ c.sufficient
    /\ ~c.response_text.isNone /\ c.response_text.v /= <<>>
    /\ c.success

\* C27: in scenario 4 the cycle ends with outcome REPLIED: one reply was
\* sent, into the thread of the original, with In-Reply-To the original's
\* Message-ID and the generated text as body; mark_as_read was called once
\* and run_async_forward was not called.
C27_RepliedOnceThreaded ==
    \A p \in Procs :
       LET c == cb[p] IN
       RepliedScenario(c)
          => /\ c.outcomes = {"REPLIED"}
             /\ c.fault = ""
             /\ c.pc \in {"mark", "return"}
             /\ Count(c.calls, "send_reply") = 1
             /\ Count(c.net, "gmail_send") = 1
             /\ c.reply.threadId = thread_id(c.message_id)
             /\ c.reply.in_reply_to = message_id_header(c.message_id)
             /\ c.reply.body = c.response_text.v
             /\ ~Invoked(c, "run_async_forward")
             /\ c.escalation = NoMessageText
             /\ c.pc = "return" => MarkedOnce(c)

C27_Witness ==
    \E p \in Procs :
       /\ cb[p].pc = "return"
       /\ RepliedScenario(cb[p])
       /\ cb[p].marked
       /\ sent[cb[p].message_id] = 1
       /\ cb[p].reply.body = <<"r", "e", "p", "l", "y">>

(***************************************************************************)
(* Claims about two callbacks running at once.                             *)
(***************************************************************************)
\* Cycle c took a message from the list and has not called mark_as_read.
Handling(c) == c.message_id /= 0 /\ ~Invoked(c, "mark_as_read")

\* C28: nothing keeps two concurrent cycles apart. While one cycle handles a
\* message and has not marked it read, the other cycle's listing can hand it
\* the same message; and a cycle about to reply or to escalate can do so
\* although the other cycle has replied or escalated for that message.
C28_NoMutualExclusion ==
    \A p \in Procs : \A q \in Procs \ {p} :
       LET m == cb[p].message_id IN
       /\ (Handling(cb[p]) /\ cb[q].pc = "list")
             => ENABLED (/\ ListUnread(q)
                         /\ cb'[q].pc = "get"
                         /\ cb'[q].message_id = m)
       /\ (cb[p].pc = "send" /\ sent[m] >= 1)
             => ENABLED (SendReply(p) /\ sent'[m] = sent[m] + 1)
       /\ (cb[p].pc = "forward" /\ escalated[m] >= 1 /\ config.telegram)
             => ENABLED (Forward(p) /\ escalated'[m] = escalated[m] + 1)

\* Both cycles took the same message before either called mark_as_read, and
\* each sent a reply to it.
C28_Witness ==
    /\ cb["A"].message_id = cb["B"].message_id
    /\ \A p \in Procs :
          /\ Handling(cb[p])
          /\ cb[p].pc = "mark"
          /\ cb[p].success
    /\ sent[cb["A"].message_id] = 2

(***************************************************************************)
(* Claims about what a cycle leaves alone.                                 *)
(***************************************************************************)
InCycle(c) == c.pc \in {"get", "classify", "synthesize", "search", "evaluate",
                        "generate", "send", "forward", "mark", "return"}

\* C29: a cycle handles one message, the first entry of the list it was
\* given: it keeps that message to its end, fetches, replies, escalates and
\* marks at most once, and every other message keeps its UNREAD label and
\* gets neither a reply nor an escalation.
C29_OnlyFirstEntryHandled ==
    [][\A p \in SeqProcs :
          /\ (cb[p].pc = "list" /\ cb'[p].pc = "get")
                => /\ unread /= <<>>
                   /\ cb'[p].message_id = Head(unread)
          /\ (InCycle(cb[p]) /\ InCycle(cb'[p]))
                => cb'[p].message_id = cb[p].message_id
          /\ \A f \in {"list_unread_emails", "get_email_details", "send_reply",
                       "run_async_forward", "mark_as_read"} :
                Count(cb'[p].calls, f) <= 1
          /\ \A m \in Msgs \ {cb[p].message_id} :
                /\ sent'[m] = sent[m]
                /\ escalated'[m] = escalated[m]
                /\ m \in Range(unread) => m \in Range(unread')]_vars

\* Two messages were unread; the cycle replied to the newest and marked it
\* read, and the older one is still unread, without reply or escalation.
C29_Witness ==
    \E p \in SeqProcs :
       /\ cb[p].pc = "return"
       /\ cb[p].message_id = 2
       /\ cb[p].success /\ cb[p].marked
       /\ sent[2] = 1
       /\ unread = <<1>>
       /\ sent[1] = 0 /\ escalated[1] = 0

\* The list call of cycle c gave the dispatcher an empty list.
ListedNothing(c) == Invoked(c, "list_unread_emails") /\ c.message_id = 0

\* C30: when nothing is unread or the list request fails, the dispatcher
\* gets an empty list and returns at once: list_unread_emails is the only
\* call of the cycle, nothing is sent, no outcome is reached, no exception
\* is raised, and the callback acks the notification and changes nothing
\* else.
C30_EmptyListReturnsQuietly ==
    /\ [](\A p \in Procs :
            LET c == cb[p] IN
            /\ c.list_failed => ListedNothing(c)
            /\ ListedNothing(c)
                  => /\ c.pc = "return"
                     /\ c.calls = <<"list_unread_emails">>
                     /\ c.net = <<>>
                     /\ c.outcomes = {}
                     /\ c.fault = ""
                     /\ ~c.fetched /\ ~c.marked /\ ~c.success /\ ~c.forwarded)
    /\ [][\A p \in Procs :
            (cb[p].pc = "list" /\ cb'[p].pc /= "list" /\ unread = <<>>)
               => ListedNothing(cb'[p])]_vars
    /\ [][\A p \in Procs :
            (ListedNothing(cb[p]) /\ cb'[p] /= cb[p])
               => /\ cb'[p].pc = "idle"
                  /\ cb'[p].ack = "acked"
                  /\ unread' = unread
                  /\ sent' = sent
                  /\ escalated' = escalated]_vars

\* The list request failed while a message was unread, and the cycle is
\* about to return.
C30_Witness ==
    \E p \in Procs :
       /\ ListedNothing(cb[p])
       /\ cb[p].list_failed
       /\ unread /= <<>>
       /\ cb[p].pc = "return"

(***************************************************************************)
(* Claims about the order of the calls and about the branches of the       *)
(* PROCESS path.                                                           *)
(***************************************************************************)
Pipeline ==
    <<"classify_email", "generate_ebay_search_params", "search_ebay_items",
      "evaluate_knowledge_relevance", "generate_response", "send_reply">>

\* The calls of the cycle that are calls of the pipeline, in their order.
PipelineCalls(c) == SelectSeq(c.calls, LAMBDA f : f \in Range(Pipeline))

\* C31: the pipeline calls of a cycle are classify, synthesize, search,
\* evaluate, generate, send_reply in this order, each at most once and none
\* without the one before it; send_reply is called only after PROCESS,
\* parameters with 'q', at least one item, a true evaluation and a non-empty
\* generated text.
C31_PipelineOrder ==
    \A p \in Procs :
       LET c == cb[p]
           made == PipelineCalls(c)
       IN  /\ Len(made) <= Len(Pipeline)
           /\ made = SubSeq(Pipeline, 1, Len(made))
           /\ Invoked(c, "send_reply")
                 => /\ IsProcess(c)
                    /\ ~c.search_params.isNone
                    /\ "q" \in c.search_params.v.keys
                    /\ c.items > 0
                    /\ c.sufficient
                    /\ ~c.response_text.isNone
                    /\ c.response_text.v /= <<>>

C31_Witness ==
    \E p \in Procs :
       /\ PipelineCalls(cb[p]) = Pipeline
       /\ cb[p].calls = <<"list_unread_emails", "get_email_details">>
                           \o Pipeline \o <<"mark_as_read">>

\* The cycle took the branch of a sufficient evaluation.
SufficientPath(c) == Invoked(c, "generate_response")

\* C32: on the path of a sufficient evaluation mark_as_read is called only
\* after send_reply returned True; when the generated text is None or empty,
\* or the send fails, the cycle returns without mark_as_read and without
\* run_async_forward, and the message keeps its UNREAD label.
C32_SufficientPathMarksOnlyAfterSend ==
    \A p \in Procs :
       LET c == cb[p] IN
       SufficientPath(c)
          => /\ Invoked(c, "mark_as_read") => c.success
             /\ ~Invoked(c, "run_async_forward")
             /\ (Ended(c) /\ ~c.success)
                   => /\ ~Invoked(c, "mark_as_read")
                      /\ c.outcomes = {"FAILED"}
                      /\ c.escalation = NoMessageText

\* The send failed; the cycle returns and the message is still unread.
C32_Witness ==
    \E p \in Procs :
       /\ cb[p].pc = "return"
       /\ Invoked(cb[p], "send_reply")
       /\ "gmail_send" \in Range(cb[p].net)
       /\ ~cb[p].success
       /\ cb[p].message_id \in Range(unread)

\* C33: when the search found items and the evaluation is false, the
\* dispatcher calls run_async_forward and calls neither generate_response
\* nor send_reply.
C33_InsufficientEscalates ==
    \A p \in Procs :
       LET c == cb[p] IN
       (Invoked(c, "evaluate_knowledge_relevance") /\ c.items > 0
          /\ ~c.sufficient)
          => /\ c.pc \in {"forward", "mark", "return"}
             /\ c.fault = ""
             /\ NoneInvoked(c, {"generate_response", "send_reply"})
             /\ c.pc /= "forward"
                   => /\ Count(c.calls, "run_async_forward") = 1
                      /\ c.outcomes = {"ESCALATED"}

C33_Witness ==
    \E p \in Procs :
       /\ cb[p].pc = "return"
       /\ Invoked(cb[p], "evaluate_knowledge_relevance")
       /\ cb[p].items > 0
       /\ ~cb[p].sufficient
       /\ cb[p].forwarded

\* C34: when classify_email returned None, the dispatcher calls
\* run_async_forward and calls neither synthesis nor search nor evaluation
\* nor generation nor send_reply.
C34_UnclassifiedEscalates ==
    \A p \in Procs :
       LET c == cb[p] IN
       (Invoked(c, "classify_email") /\ ~IsSpam(c) /\ ~IsProcess(c))
          => /\ c.classification.isNone
             /\ c.pc \in {"forward", "mark", "return"}
             /\ c.fault = ""
             /\ NoneInvoked(c, {"generate_ebay_search_params",
                                "search_ebay_items",
                                "evaluate_knowledge_relevance",
                                "generate_response", "send_reply"})
             /\ c.pc /= "forward"
                   => /\ Count(c.calls, "run_async_forward") = 1
                      /\ c.outcomes = {"ESCALATED"}

C34_Witness ==
    \E p \in Procs :
       /\ cb[p].pc = "return"
       /\ Invoked(cb[p], "classify_email")
       /\ cb[p].classification.isNone
       /\ cb[p].forwarded
       /\ cb[p].marked

(***************************************************************************)
(* Claims about escalation and about the messages that stay unread.        *)
(***************************************************************************)
\* The branches that end in run_async_forward: parameters unusable, no item
\* found, evaluation insufficient, classification failed.
EscalationBranches ==
    {<<"list_unread_emails", "get_email_details", "classify_email">>,
     <<"list_unread_emails", "get_email_details", "classify_email",
       "generate_ebay_search_params">>,
     <<"list_unread_emails", "get_email_details", "classify_email",
       "generate_ebay_search_params", "search_ebay_items">>,
     <<"list_unread_emails", "get_email_details", "classify_email",
       "generate_ebay_search_params", "search_ebay_items",
       "evaluate_knowledge_relevance">>}

BeforeForward(c) ==
    SelectSeq(c.calls, LAMBDA f : f \notin {"run_async_forward", "mark_as_read"})

\* C35: a cycle that called run_async_forward came through one of the four
\* escalation branches; it calls mark_as_read exactly when the notifier
\* returned True, which it does only for a text that was sent; after a
\* failed delivery the cycle returns with the message still unread, and a
\* cycle gets a message only from its list call, as the first entry.
C35_MarkedOnlyIfDelivered ==
    /\ [](\A p \in Procs :
            LET c == cb[p] IN
            Invoked(c, "run_async_forward")
               => /\ BeforeForward(c) \in EscalationBranches
                  /\ c.forwarded
                        => /\ config.telegram
                           /\ "telegram_send_message" \in Range(c.net)
                  /\ Invoked(c, "mark_as_read") => c.forwarded
                  /\ c.pc = "return"
                        => /\ Invoked(c, "mark_as_read") <=> c.forwarded
                           /\ ~c.forwarded => c.message_id \in Range(unread))
    /\ [][\A p \in Procs :
            (cb'[p].message_id /= 0 /\ cb'[p].message_id /= cb[p].message_id)
               => /\ cb[p].pc = "list"
                  /\ unread /= <<>>
                  /\ cb'[p].message_id = Head(unread)]_vars

\* Delivery to the support chat was tried and failed: the cycle returns
\* without mark_as_read and the message is still unread.
C35_Witness ==
    \E p \in Procs :
       /\ cb[p].pc = "return"
       /\ Invoked(cb[p], "run_async_forward")
       /\ "telegram_send_message" \in Range(cb[p].net)
       /\ ~cb[p].forwarded
       /\ ~Invoked(cb[p], "mark_as_read")
       /\ cb[p].message_id \in Range(unread)

\* The messages that arrived.
Arrived == {m \in Msgs : mail[m].arrived}

\* C36: with k unread messages and no arrival, a cycle that marks its
\* message read removes the first unread message and nothing else, and
\* nothing else changes the list; so the list is always the k - j oldest
\* messages after j marking cycles, at most one message goes per
\* notification, and k marking cycles leave no unread message.
C36_EachMarkingCycleRemovesFirstUnread ==
    /\ [](/\ unread = Newest(Len(unread))
          /\ Len(unread) + delivered >= Cardinality(Arrived))
    /\ [][\A p \in SeqProcs :
            (cb[p].pc = "mark" /\ cb'[p].marked)
               => /\ unread /= <<>>
                  /\ cb[p].message_id = Head(unread)
                  /\ unread' = Tail(unread)]_vars
    /\ [][unread' /= unread
            => \E p \in SeqProcs : cb[p].pc = "mark" /\ cb'[p].marked]_vars

\* Two messages were unread; two notifications were handled, each cycle
\* marked its message read, and nothing is unread.
C36_Witness ==
    /\ Cardinality(Arrived) = 2
    /\ delivered = 2
    /\ unread = <<>>
    /\ \E p \in SeqProcs : cb[p].pc = "return" /\ cb[p].marked
                             /\ cb[p].message_id = 1

\* The unread messages behind the first one.
Older == IF unread = <<>> THEN {} ELSE Range(Tail(unread))

\* C37: while the first unread message is not marked read, every cycle
\* that gets a list takes that message again, and the messages behind it
\* are never the message of a cycle, never replied to, never escalated and
\* never marked read. Without a configured bot a cycle that escalates never
\* calls mark_as_read, so a first message that takes an escalation branch
\* stays first for good.
C37_HeadOfLineBlocking ==
    /\ [](/\ \A m \in Older :
                /\ sent[m] = 0
                /\ escalated[m] = 0
                /\ \A p \in SeqProcs : cb[p].message_id /= m
          /\ \A p \in SeqProcs :
                (~config.telegram /\ Invoked(cb[p], "run_async_forward"))
                   => /\ ~cb[p].forwarded
                      /\ ~Invoked(cb[p], "mark_as_read")
                      /\ cb[p].message_id = Head(unread)
          /\ ~config.telegram => \A m \in Msgs : escalated[m] = 0)
    /\ [][\A p \in SeqProcs :
            (cb[p].pc = "list" /\ cb'[p].pc = "get")
               => cb'[p].message_id = Head(unread)]_vars
    /\ [][\A m \in Older :
            (unread' /= <<>> /\ Head(unread') = Head(unread))
               => m \in Range(Tail(unread'))]_vars

\* The bot is not configured; the second notification's cycle has taken the
\* newest message again and failed to escalate it, and the older message
\* is still unread and untouched.
C37_Witness ==
    /\ ~config.telegram
    /\ delivered = 2
    /\ unread = <<2, 1>>
    /\ \E p \in SeqProcs :
          /\ cb[p].pc = "return"
          /\ cb[p].message_id = 2
          /\ Invoked(cb[p], "run_async_forward")
          /\ ~cb[p].forwarded
    /\ sent[1] = 0 /\ escalated[1] = 0

(***************************************************************************)
(* Claims about get_oauth_token under two callers.                         *)
(***************************************************************************)
\* C38: whatever the interleaving of two callers, a call that returns the
\* cached token does so earlier than 60 time units before the expiry of the
\* token it returns.
C38_CachedTokenBeforeItsOwnMargin ==
    \A p \in Procs :
       ebay[p].hit => ebay[p].at < ebay[p].returned - Margin

\* Both responses are stored at the same time, and the cache holds the
\* token of one response with the expiry of the other.
C38_TokenOfOneExpiryOfOther ==
    /\ \A p \in Procs : ebay[p].pc = "idle"
    /\ oauth_token
    /\ token_expiry_time > HeldDeclared - Margin

(***************************************************************************)
(* Claims about a completion without parts and without block reason.       *)
(***************************************************************************)
\* The last attempt of the call delivered a completion that has no parts
\* and no block reason.
EmptyCompletion == LastAttempt = "noparts"

RECURSIVE CountOf(_, _)
CountOf(seq, x) ==
    IF seq = <<>> THEN 0
    ELSE (IF Head(seq) = x THEN 1 ELSE 0) + CountOf(Tail(seq), x)

\* C39: a completion without parts and without block reason ends the call of
\* _call_gemini_api on that attempt, which returns it as its result with no
\* sleep and no further attempt after it; classify_email, generate_response
\* and generate_ebay_search_params then return None and
\* evaluate_knowledge_relevance returns False.
C39_EmptyCompletionIsFailure ==
    EmptyCompletion =>
       /\ api.pc = "done"
       /\ api.result = Response(FALSE, FALSE)
       /\ CountOf(api.hist, "noparts") = 1
       /\ Len(api.sleeps) = Len(api.hist) - 1
       /\ ClassifyEmailReturned => wrap.out.isNone
       /\ ResponseReturned => wrap.out.isNone
       /\ SearchParamsReturned => wrap.params.isNone
       /\ RelevanceReturned => ~wrap.flag

\* generate_response was called with items and got, after one failed
\* attempt, a completion without parts: it returned None.
C39_Witness ==
    /\ ResponseReturned
    /\ wrap.items > 0
    /\ api.hist = <<"raise", "noparts">>
    /\ api.result = Response(FALSE, FALSE)
    /\ wrap.out.isNone

(***************************************************************************)
(* Claims about send_reply and the headers of the original message.        *)
(***************************************************************************)
\* Cycle c has called send_reply and the call has returned.
ReplyAttempted(c) == Invoked(c, "send_reply") /\ c.pc /= "send"

\* C40: send_reply makes no send request and returns False when the original
\* message has no From header or no Message-ID header; with both headers the
\* send request is made whether or not the message has a thread id; so every
\* reply that was sent names the Message-ID header of the original in
\* In-Reply-To and in References.
C40_ReplyNeedsSenderAndMessageId ==
    \A p \in Procs :
       LET c == cb[p]
           original == mail[c.message_id]
       IN  ReplyAttempted(c) =>
              /\ (~original.sender \/ ~original.message_id_header)
                    => /\ ~c.success
                       /\ Count(c.net, "gmail_send") = 0
                       /\ c.reply = NoReply
                       /\ sent[c.message_id] = 0
              /\ (original.sender /\ original.message_id_header)
                    => Count(c.net, "gmail_send") = 1
              /\ Count(c.net, "gmail_send") > 0
                    => /\ original.message_id_header
                       /\ c.reply.in_reply_to = message_id_header(c.message_id)
                       /\ c.reply.references = message_id_header(c.message_id)
                       /\ c.reply.threadId =
                             IF original.thread_id THEN thread_id(c.message_id)
                                                   ELSE 0

\* A message with both headers and no thread id was answered: the reply was
\* sent without a threadId and names the original's Message-ID.
C40_Witness ==
    \E p \in Procs :
       /\ ReplyAttempted(cb[p])
       /\ ~mail[cb[p].message_id].thread_id
       /\ cb[p].success
       /\ sent[cb[p].message_id] = 1
       /\ cb[p].reply.threadId = 0
       /\ cb[p].reply.in_reply_to = message_id_header(cb[p].message_id)

\* A message without Message-ID header reached send_reply, which returned
\* False without a send request.
C40_WitnessNoMessageId ==
    \E p \in Procs :
       /\ ReplyAttempted(cb[p])
       /\ mail[cb[p].message_id].sender
       /\ ~mail[cb[p].message_id].message_id_header
       /\ ~cb[p].success
       /\ cb[p].net /= <<>>

====
